---- MODULE Spec2Model ----
(***************************************************************************)
(* Governance of versioned model artifacts (deriv-ws, ai-layer scripts):   *)
(* the model registry (models/manifest.json), the active pointer           *)
(* (models/active_model.json), the companion metadata of each artifact,    *)
(* replay validation, promotion and rollback.                              *)
(*                                                                         *)
(* Spec      the governance scripts run one after the other, each to its   *)
(*           end (one action per script run).                              *)
(* SpecAudit Spec with the history of the replay verdicts.                 *)
(* SpecGate  Spec plus runs of the promotion gate (gatekeeper.py) on the   *)
(*           registered candidates that passed replay validation, with the *)
(*           history of its verdicts.                                      *)
(* SpecConc  the scripts run as concurrent jobs; a job is cut at its file  *)
(*           reads and writes, and a write (open(path,'w') + json.dump) is *)
(*           a truncation followed by the output of the document.          *)
(* SpecReg   the model registry and the dataset registry under scans,      *)
(*           compose, promote and rollback, with files rewritten in place. *)
(* SpecSafety  the monitors, the safety circuit (detect_auto_disable.py),  *)
(*           the admin kill switch and the fire drill.                     *)
(* SpecInfer the inference services answering while the admin locks and    *)
(*           unlocks the AI.                                               *)
(* SpecReplay  replay validation over anchors of ANCHOR_ROWS rows, for     *)
(*           the numbers of correct predictions the two compared artifacts *)
(*           may score; accuracies and their difference are IEEE-754       *)
(*           doubles, as in evaluate_replay.py.                            *)
(* SpecPromotion, SpecThreshold, SpecOutage, SpecDecay, SpecRegime  the    *)
(*           analytics scripts over the signal store: the promotion gate,  *)
(*           the threshold proposal, replay and approval, the store's      *)
(*           outages, the decay monitor, the regime monitor with the       *)
(*           safety circuit.                                               *)
(* SpecServing  ModelService.predict and revert_model.py beside promote    *)
(*           and rollback.                                                 *)
(***************************************************************************)
EXTENDS Integers, Sequences, FiniteSets, TLC

\* ---------------------------------------------------------------- bounds

\* Number of artifact files (model_v1.pkl, model_v2.pkl, ...) ever trained.
MaxModels == 3

ModelFiles == 1..MaxModels

\* The value read for "no artifact": load_json returns {} for a missing file
\* and {}.get('active_model') is None.
NoModel == 0

\* Seconds the clock advances while the registries are scanned and composed
\* (SpecReg) and the safety circuit runs (SpecSafety).
MaxClock == 1

\* Number of entries the dataset manifest grows to.
MaxDatasets == 4

\* Number of governance jobs that run concurrently (SpecConc).
MaxJobs == 2

Jobs == 1..MaxJobs

\* Datasets of the dataset manifest that an operator may tag ANCHOR.
Anchors == {"anchor_a", "anchor_b"}

\* ------------------------------------------------------------- constants

\* evaluate_replay.py: a candidate fails on acc_delta < -0.05; the literal,
\* in hundredths.
ACC_REGRESSION_TOLERANCE == 5

\* Rows of an anchor dataset: accuracy_score is correct / ANCHOR_ROWS.
ANCHOR_ROWS == 20

\* Significant bits of an IEEE-754 double (a Python float).
MANTISSA_BITS == 53

\* Bits of the fixed-point expansion a double in [0, 1] is written in below:
\* bit i weighs 2^(1-i).  Every double in [2^-10, 1] and every difference of
\* two of them is exact in it (the literals 0.05, 0.01 and 0.005 included).
FIXED_BITS == 64

\* The bytes train_v2.py dumps for artifact f: artifacts differ in content.
OriginalBytes(f) == <<f, 7, f + 1>>

\* The bytes a file holds once it has been rewritten in place.
Tamper(bytes) == <<Head(bytes), 0>>

\* The rows of the raw dataset captures (the header apart); the captures
\* overlap in one row.
RawBytes(d) == IF d = "anchor_a" THEN <<1, 2, 3>> ELSE <<3, 4>>

\* gatekeeper.py "Strict Rules"; rates in basis points (1/10000).
MIN_SAMPLES == 50

MIN_WR_IMPROVEMENT == 50

MAX_REGIME_REGRESSION == 500

MIN_HIGH_CONF_ACCURACY == 6000

\* calculate_checksum reads the file in blocks of 4096 bytes; the files of
\* the model are a few bytes long and are read in blocks of 2.
READ_BLOCK == 2

\* The digest is a number below HASH_MODULUS (SHA-256: below 2^256).
HASH_MODULUS == 997

\* Lifecycle state of a manifest entry.  scan_models writes no 'state' key:
\* that entry is REGISTERED.
EntryStates == {"REGISTERED", "ACTIVE", "ARCHIVED", "ROLLED_BACK"}

\* Companion metadata <model>.json: no file, a file without
\* 'validation_status' (promote reads it as 'UNKNOWN'), or 'PASSED'.
MetaStates == {"ABSENT", "UNKNOWN", "PASSED"}

VARIABLES
    modelFiles,     \* the .pkl files present in MODEL_DIR
    metaStatus,     \* per artifact: its companion metadata (MetaStates)
    manifest,       \* models/manifest.json: the list manifest['models']
    pointer,        \* models/active_model.json: its 'active_model'
    anchors,        \* datasets tagged ANCHOR in datasets/manifest.json
    last,           \* the script run that ended last: [op, arg, exit]
    everPromoted,   \* history: some promote has ended with exit code 0
    replayVerdict,  \* history: per artifact, the verdict of the most recent
                    \* replay-validation run that evaluated it as candidate
    gateVerdict,    \* history: per artifact, the verdict of the most recent
                    \* gatekeeper run on it
    aiStatus,       \* config/ai_status.json
    partial,        \* the files opened with 'w' (truncated) whose document
                    \* has not been dumped yet
    jobs,           \* the concurrent jobs: [kind, arg, pc, models, exit]
    content,        \* per artifact: the bytes of its .pkl file
    datasetFiles,   \* the .csv files present in DATASET_DIR: name -> bytes
    datasets,       \* datasets/manifest.json: the list manifest['datasets']
    scanReport,     \* what the script run that ended last printed, when it
                    \* was a scan, and how it ended
    regBytes,       \* history: per registered file, the bytes it held when
                    \* an entry of its name was appended last
    scores,         \* per artifact and anchor: the correct predictions, of
                    \* ANCHOR_ROWS, that evaluate() counts
    replayErrs,     \* history: the anchors on which evaluate() raised in the
                    \* replay run that ended last
    driftReport,    \* drift_report.json: whether it exists, and its 'alerts'
    decayReport,    \* decay_report.json, likewise
    regimeReport,   \* regime_report.json, likewise
    thresholdAlerts,\* the alerts monitor_threshold_drift.py logged last
    statusDoc,      \* config/ai_status.json besides 'status': reason, actor
                    \* and timestamp
    now,            \* the clock datetime.now() reads
    response,       \* what the inference service answered last (/infer), or
                    \* what ModelService.predict returned last (SpecServing)
    fetched,        \* history: the rows the gatekeeper, decay monitor or
                    \* regime monitor run that ended last got from the signal
                    \* store, as their index in GateInputs, DecayInputs or
                    \* RegimeInputs (0: no run yet)
    gateResult,     \* history: what evaluate_promotion came to in the
                    \* gatekeeper run that ended last
    gateCall,       \* history: the candidate and the baseline named on the
                    \* command line of that run
    proposal,       \* threshold_proposal.json
    validation,     \* replay_validation.json
    thresholdVersions, \* the rows of the table threshold_versions
    signoff,        \* history: the approver name and the confirmation given
                    \* to the approve_threshold.py run that ended last
    runEnd,         \* history: how the threshold script or monitor run that
                    \* ended last came to its end
    storeSeen,      \* history: what that run found the signal store to be
    endedEarly,     \* history: the monitors whose latest run returned before
                    \* it wrote its report
    modelConfig,    \* config/model_config.json: whether it exists, its
                    \* 'active_model' and its 'previous_model'
    modelCache      \* ModelService._models: the filenames whose model the
                    \* inference service has loaded

\* The variables of the registry's content integrity (SpecReg).
integ == <<content, datasetFiles, datasets, scanReport, regBytes>>

\* The variables of SpecReplay.
replay == <<scores, replayErrs>>

\* The variables of the safety circuit (SpecSafety), aiStatus apart.
alarms == <<driftReport, decayReport, regimeReport, thresholdAlerts, statusDoc,
            response>>

safety == <<alarms, now>>

\* The history of the promotion gate (SpecPromotion).
gate == <<fetched, gateResult, gateCall>>

\* The variables of the threshold pipeline (SpecThreshold).
thresholdDocs == <<proposal, validation, thresholdVersions, signoff>>

thresholds == <<thresholdDocs, runEnd>>

\* The model configuration and the inference service's cache (SpecServing).
serving == <<modelConfig, modelCache>>

analytics == <<gate, thresholds, storeSeen, endedEarly, serving>>

ext == <<integ, replay, safety, analytics>>

vars == <<modelFiles, metaStatus, manifest, pointer, anchors, last,
          everPromoted, replayVerdict, gateVerdict, aiStatus, partial, jobs, ext>>

\* The history variables of SpecAudit.
audit == <<replayVerdict, gateVerdict>>

\* The variables of SpecConc.
conc == <<aiStatus, partial, jobs>>

\* The variables only script runs outside SpecConc change.
quiet == <<modelFiles, metaStatus, anchors, last, everPromoted>>

\* ------------------------------------------------------- pure functions

\* hashlib: sha256.update(block), byte after byte.
RECURSIVE HashUpdate(_, _)
HashUpdate(h, block) ==
    IF block = <<>> THEN h
    ELSE HashUpdate((h * 31 + Head(block) + 1) % HASH_MODULUS, Tail(block))

\* SHA-256 of a byte string, hashed in one piece.
Sha256(bytes) == HashUpdate(0, bytes)

\* Mutant of calculate_checksum: only the first block is hashed.
calculate_checksum_FirstBlock(bytes) ==
    HashUpdate(0, SubSeq(bytes, 1, IF Len(bytes) < READ_BLOCK THEN Len(bytes) ELSE READ_BLOCK))

\* manage_models.py / manage_datasets.py / compose_dataset.py
\* calculate_checksum: the file is read block after block, each block
\* updating the hash.
RECURSIVE ChecksumFrom(_, _)
ChecksumFrom(h, bytes) ==
    IF bytes = <<>> THEN h
    ELSE LET n == IF Len(bytes) < READ_BLOCK THEN Len(bytes) ELSE READ_BLOCK
         IN  ChecksumFrom(HashUpdate(h, SubSeq(bytes, 1, n)), SubSeq(bytes, n + 1, Len(bytes)))

calculate_checksum(bytes) == ChecksumFrom(0, bytes)

\* manage_models.py scan_models, "New Model": the entry of a file with the
\* given bytes (no 'state' key is written: the entry is REGISTERED).
NewEntry(f, bytes) ==
    [filename |-> f, checksum |-> calculate_checksum(bytes), locked |-> TRUE,
     state |-> "REGISTERED"]

\* A manifest entry whose artifact held, when it was registered, the bytes it
\* was trained with.
Entry(f, s) == [NewEntry(f, OriginalBytes(f)) EXCEPT !.state = s]

Filenames(models) == {models[i].filename : i \in DOMAIN models}

ActiveEntries(models) == {i \in DOMAIN models : models[i].state = "ACTIVE"}

ActiveFiles(models) == {models[i].filename : i \in ActiveEntries(models)}

StateOf(models, f) ==
    IF f \in Filenames(models)
    THEN (CHOOSE e \in {models[i] : i \in DOMAIN models} : e.filename = f).state
    ELSE "NOT_REGISTERED"

\* All orders in which os.listdir may return the files of S.
Orders(S) ==
    {s \in [1..Cardinality(S) -> S] : \A i, j \in DOMAIN s : i # j => s[i] # s[j]}

\* Mutant of PromoteEntries: the elif branch that archives the outgoing
\* ACTIVE entry is missing.
PromoteEntries_NoArchive(models, f) ==
    [i \in DOMAIN models |->
        IF models[i].filename = f
        THEN [models[i] EXCEPT !.state = "ACTIVE"]
        ELSE models[i]]

\* promote_model.py, the loop over manifest['models']: only entry['state']
\* is assigned.
PromoteEntries(models, f) ==
    [i \in DOMAIN models |->
        IF models[i].filename = f
        THEN [models[i] EXCEPT !.state = "ACTIVE"]
        ELSE IF models[i].state = "ACTIVE"
             THEN [models[i] EXCEPT !.state = "ARCHIVED"]
             ELSE models[i]]

\* Mutant of RollbackEntries: the two ifs in the other order, so that the
\* target, once activated, is deactivated as the current one.
RollbackEntries_ActivateFirst(models, t) ==
    [i \in DOMAIN models |->
        IF models[i].filename = t \/ models[i].state = "ACTIVE"
        THEN [models[i] EXCEPT !.state = "ROLLED_BACK"]
        ELSE models[i]]

\* rollback_model.py, the loop over manifest['models']: first "Deactivate
\* Current", then "Activate Target", both on every entry.
RollbackEntries(models, t) ==
    [i \in DOMAIN models |->
        LET deactivated == IF models[i].state = "ACTIVE"
                           THEN [models[i] EXCEPT !.state = "ROLLED_BACK"]
                           ELSE models[i]
        IN  IF models[i].filename = t
            THEN [models[i] EXCEPT !.state = "ACTIVE"]
            ELSE deactivated]

\* known_models[filename]["checksum"]: the checksum stored for a file.  The
\* dict {entry["filename"]: entry for entry in ...} keeps, of the entries of
\* one name, the last.
StoredChecksum(entries, f) ==
    LET named == {i \in DOMAIN entries : entries[i].filename = f}
    IN  entries[CHOOSE i \in named : \A k \in named : k <= i].checksum

\* The known files whose bytes no longer have the stored checksum: the scan
\* prints CRITICAL VIOLATION for each.
ScanViolations(entries, files, bytes) ==
    {f \in files \cap Filenames(entries) :
        StoredChecksum(entries, f) # calculate_checksum(bytes[f])}

\* Mutant of ScanVerified: Verified is printed for every known file.
ScanVerified_AnyKnown(entries, files, bytes) == files \cap Filenames(entries)

\* The known files the scan prints Verified for.
ScanVerified(entries, files, bytes) ==
    {f \in files \cap Filenames(entries) :
        StoredChecksum(entries, f) = calculate_checksum(bytes[f])}

\* Mutant of ScanEntries: a known file whose bytes changed is repaired (its
\* stored checksum overwritten) while the new files are appended.
ScanEntries_Repair(models, order, bytes) ==
    [i \in DOMAIN models |->
        IF models[i].filename \in DOMAIN bytes
        THEN [models[i] EXCEPT !.checksum = calculate_checksum(bytes[models[i].filename])]
        ELSE models[i]]
    \o [i \in DOMAIN order |-> NewEntry(order[i], bytes[order[i]])]

\* manage_models.py, the loop over the .pkl files: a known file is verified
\* and its entry left as it is, a new one is appended with the checksum of
\* its bytes (in the order os.listdir gave).
ScanEntries(models, order, bytes) ==
    models \o [i \in DOMAIN order |-> NewEntry(order[i], bytes[order[i]])]

\* What a scan prints and how it ends: the function returns after the loop
\* whatever it found (exit code 0).
ScanReport(entries, files, bytes, order) ==
    [violations |-> ScanViolations(entries, files, bytes),
     verified |-> ScanVerified(entries, files, bytes),
     discovered |-> {order[i] : i \in DOMAIN order},
     exit |-> 0]

\* manage_datasets.py scan_datasets "New File" (no 'tags' and no
\* 'constituents' key: composite FALSE, no constituent) and
\* compose_dataset.py new_entry ('tags': ['composite'], 'constituents': the
\* ids of the sources that loaded).
NewDatasetEntry(d, bytes, composite, constituents) ==
    [filename |-> d, checksum |-> calculate_checksum(bytes), locked |-> TRUE,
     composite |-> composite, constituents |-> constituents]

\* manage_datasets.py, the loop over the .csv files.
ScanDatasetEntries(entries, order, bytes) ==
    entries \o [i \in DOMAIN order |-> NewDatasetEntry(order[i], bytes[order[i]], FALSE, <<>>)]

\* The first occurrences of a sequence, in order: the seen_ids loop of
\* compose and pandas drop_duplicates.
RECURSIVE DropDuplicates(_, _)
DropDuplicates(seen, seq) ==
    IF seq = <<>> THEN <<>>
    ELSE IF Head(seq) \in seen THEN DropDuplicates(seen, Tail(seq))
         ELSE <<Head(seq)>> \o DropDuplicates(seen \cup {Head(seq)}, Tail(seq))

\* compose_dataset.py compose, lines 36-82: the file names of the sources
\* that load, the ANCHOR-tagged entries first, then those created within the
\* window (recent), composites skipped, each id once.
ComposeSources(entries, tagged, recent, files) ==
    LET name(e) == e.filename
        anchs == SelectSeq(entries, LAMBDA e : ~e.composite /\ e.filename \in tagged)
        window == SelectSeq(entries, LAMBDA e : ~e.composite /\ e.filename \notin tagged
                                                 /\ e.filename \in recent)
        all_sources == [i \in DOMAIN (anchs \o window) |-> name((anchs \o window)[i])]
    IN  SelectSeq(DropDuplicates({}, all_sources), LAMBDA d : d \in DOMAIN files)

\* pd.concat(dfs) followed by drop_duplicates.
RECURSIVE Concat(_, _)
Concat(files, srcs) ==
    IF srcs = <<>> THEN <<>> ELSE files[Head(srcs)] \o Concat(files, Tail(srcs))

Merged(files, srcs) == DropDuplicates({}, Concat(files, srcs))

\* composite_<timestamp>.csv: the timestamp has the resolution of a second.
CompositeNames == <<"composite_0", "composite_1", "composite_2", "composite_3">>

CompositeName(t) == CompositeNames[t + 1]

\* ---- IEEE-754 doubles in [0, 1], as fixed-point expansions of FIXED_BITS bits

\* Long division of r/n, for r < n: the remainders after 0..cnt bits.
Remainders(r, n, cnt) ==
    LET rem[i \in 0..cnt] == IF i = 0 THEN r ELSE (2 * rem[i - 1]) % n
    IN  [i \in 0..cnt |-> rem[i]]

\* The remainder that long division leaves after cnt bits.
DivRem(r, n, cnt) == Remainders(r, n, cnt)[cnt]

\* The bits after the unit bit of r/n, for r < n, by long division.
DivBits(r, n, cnt) ==
    LET rem == Remainders(r, n, cnt) IN [i \in 1..cnt |-> (2 * rem[i - 1]) \div n]

\* b plus one unit of bit q: the carry runs up to the last 0 at or before q.
Inc(b, q) ==
    LET zeros == {i \in 1..q : b[i] = 0}
        z == IF zeros = {} THEN 0 ELSE CHOOSE i \in zeros : \A j \in zeros : j <= i
    IN  [i \in DOMAIN b |-> IF i < z \/ i > q THEN b[i] ELSE IF i = z THEN 1 ELSE 0]

\* Round to nearest, ties to even, at MANTISSA_BITS significant bits; sticky:
\* the exact value has nonzero bits beyond those of b.
RoundNearestEven(b, sticky) ==
    IF \A i \in DOMAIN b : b[i] = 0 THEN b
    ELSE
    LET p == CHOOSE i \in DOMAIN b : b[i] = 1 /\ \A j \in 1..(i - 1) : b[j] = 0
        q == p + MANTISSA_BITS - 1
    IN  IF q >= Len(b) THEN b
        ELSE LET rest == sticky \/ \E i \in (q + 2)..Len(b) : b[i] = 1
                 trunc == [i \in DOMAIN b |-> IF i <= q THEN b[i] ELSE 0]
             IN  IF b[q + 1] = 1 /\ (rest \/ b[q] = 1) THEN Inc(trunc, q) ELSE trunc

\* The double k / n (0 <= k <= n): the quotient, correctly rounded.
Float(k, n) ==
    RoundNearestEven(<<k \div n>> \o DivBits(k % n, n, FIXED_BITS - 1),
                     DivRem(k % n, n, FIXED_BITS - 1) # 0)

\* 1 when the subtraction at bit i has to lend to the bits after it: the
\* first bit after i where x and y differ has x below y.
BorrowInto(x, y, i) ==
    LET after == {j \in (i + 1)..Len(x) : x[j] # y[j]}
    IN  IF after = {} THEN 0
        ELSE LET first == CHOOSE j \in after : \A k \in after : j <= k
             IN  IF x[first] < y[first] THEN 1 ELSE 0

\* The double x - y, for x >= y.
FloatSub(x, y) ==
    RoundNearestEven([i \in DOMAIN x |-> (x[i] - y[i] - BorrowInto(x, y, i)) % 2], FALSE)

FloatGreater(x, y) ==
    \E i \in DOMAIN x : x[i] = 1 /\ y[i] = 0 /\ \A j \in 1..(i - 1) : x[j] = y[j]

\* evaluate_replay.py: acc_delta < -0.05, where acc_delta is the double
\* accuracy(candidate) - accuracy(baseline) and an accuracy is the double
\* correct / rows; c, b: the correct predictions of candidate and baseline.
AccDeltaBelow(c, b) ==
    c < b /\ FloatGreater(FloatSub(Float(b, ANCHOR_ROWS), Float(c, ANCHOR_ROWS)),
                           Float(ACC_REGRESSION_TOLERANCE, 100))

\* The outcome of acc_delta < -0.05 for every pair of counts.
AccRegression ==
    [c \in 0..ANCHOR_ROWS, b \in 0..ANCHOR_ROWS |-> AccDeltaBelow(c, b)]

\* The correct predictions artifact m has on anchor a when nothing else is
\* said: fixed for fixed files (artifacts and datasets are locked).
DefaultScores ==
    [m \in ModelFiles |-> [a \in Anchors |->
        IF a = "anchor_a" THEN 18 - (m % 2) ELSE 18 - 2 * (m % 2)]]

\* evaluate(): the correct predictions of artifact m on anchor a.
Accuracy(m, a) == scores[m][a]

\* evaluate_replay.py, the loop over the anchors: failed is set by an
\* accuracy regression or by an exception of evaluate().
ReplayFailed(cand, base, anchs, errs) ==
    \E a \in anchs :
        \/ a \in errs
        \/ AccRegression[Accuracy(cand, a), Accuracy(base, a)]

\* ---------------------------------------------------- signal analytics

\* A row of shadow_signals that has an outcome: the artifact that produced
\* the signal, WIN or LOSS, the confidence in hundredths, the realized PnL in
\* whole units, the market regime and the day of created_at.
Signal(model_id, outcome, confidence, realized_pnl, regime, day) ==
    [model_id |-> model_id, outcome |-> outcome, confidence |-> confidence,
     realized_pnl |-> realized_pnl, regime |-> regime, day |-> day]

\* wins rows WIN and losses rows LOSS, otherwise alike; a WIN earns one unit
\* and a LOSS costs one.
Block(model_id, wins, losses, confidence, regime) ==
    [i \in 1..wins |-> Signal(model_id, "WIN", confidence, 1, regime, 0)]
    \o [i \in 1..losses |-> Signal(model_id, "LOSS", confidence, -1, regime, 0)]

\* df[df['model_id'] == id]
OfModel(df, id) == SelectSeq(df, LAMBDA s : s.model_id = id)

\* len(df[df['outcome'] == 'WIN'])
Wins(df) == Len(SelectSeq(df, LAMBDA s : s.outcome = "WIN"))

\* df['realized_pnl'].sum()
TotalPnl(df) ==
    LET pnls == {df[i].realized_pnl : i \in DOMAIN df}
        sum[S \in SUBSET pnls] ==
            IF S = {} THEN 0
            ELSE LET v == CHOOSE x \in S : TRUE
                 IN  v * Len(SelectSeq(df, LAMBDA s : s.realized_pnl = v)) + sum[S \ {v}]
    IN  sum[pnls]

\* pd.cut(confidence, bins=[0, 0.5, 0.75, 1.0], labels=['Low', 'Mid', 'High']):
\* the intervals are closed on the right.
Bucket(confidence) ==
    IF confidence > 0 /\ confidence <= 50 THEN "Low"
    ELSE IF confidence > 50 /\ confidence <= 75 THEN "Mid"
    ELSE IF confidence > 75 /\ confidence <= 100 THEN "High"
    ELSE "NaN"

\* (x == 'WIN').mean() if len(x) > 0 else 0: the rate as the pair of the
\* dividend and the divisor of the double Python computes.
WinRate(df) == IF Len(df) > 0 THEN <<Wins(df), Len(df)>> ELSE <<0, 1>>

\* The dict {} calculate_metrics returns for no rows: it has no key.
NoMetrics == [k \in {} |-> 0]

\* comparative_analytics.py calculate_metrics.
calculate_metrics(df) ==
    IF Len(df) = 0 THEN NoMetrics
    ELSE [count |-> Len(df),
          win_rate |-> <<Wins(df), Len(df)>>,
          total_pnl |-> TotalPnl(df),
          avg_pnl |-> <<TotalPnl(df), Len(df)>>,
          bucket_wr |-> [b \in {"Low", "Mid", "High"} |->
                            WinRate(SelectSeq(df, LAMBDA s : Bucket(s.confidence) = b))],
          regime_wr |-> [r \in {df[i].regime : i \in DOMAIN df} |->
                            WinRate(SelectSeq(df, LAMBDA s : s.regime = r))]]

\* metrics[key] raises KeyError when the dict has no such key.
HasKey(metrics, key) == key \in DOMAIN metrics

\* The double of a rate.
Double(rate) == Float(rate[1], rate[2])

\* a - b < lim for the doubles of the rates a and b and of the limit lim > 0.
DeltaBelow(a, b, lim) ==
    \/ FloatGreater(Double(b), Double(a))
    \/ FloatGreater(Double(lim), FloatSub(Double(a), Double(b)))

\* a - b < -lim, likewise.
DeltaBelowMinus(a, b, lim) ==
    /\ FloatGreater(Double(b), Double(a))
    /\ FloatGreater(FloatSub(Double(b), Double(a)), Double(lim))

\* gatekeeper.py evaluate_promotion, the four rules over the metrics of the
\* candidate and of the active model: the reasons it appends.
GateReasons(cand, active) ==
    (IF cand.count < MIN_SAMPLES THEN {<<"InsufficientSamples", "">>} ELSE {})
    \cup (IF DeltaBelow(cand.win_rate, active.win_rate, <<MIN_WR_IMPROVEMENT, 10000>>)
          THEN {<<"InsufficientImprovement", "">>} ELSE {})
    \cup {<<"RegimeRegression", r>> :
            r \in {x \in DOMAIN active.regime_wr \cap DOMAIN cand.regime_wr :
                      DeltaBelowMinus(cand.regime_wr[x], active.regime_wr[x],
                                      <<MAX_REGIME_REGRESSION, 10000>>)}}
    \cup (IF FloatGreater(Double(<<MIN_HIGH_CONF_ACCURACY, 10000>>),
                          Double(cand.bucket_wr["High"]))
          THEN {<<"CalibrationFailure", "">>} ELSE {})

\* What a run of evaluate_promotion comes to: a KeyError it does not catch,
\* or the pair (passed, reasons); early is the message of a return before the
\* rules, baseline the model it compared with.
GateResult(raised, approved, reasons, early, baseline) ==
    [raised |-> raised, approved |-> approved, reasons |-> reasons, early |-> early,
     baseline |-> baseline]

NoGateResult == GateResult(FALSE, FALSE, {}, "", NoModel)

\* df['model_id'].value_counts(), its first entries other than the candidate:
\* the models with the most rows (the order among equal counts is the sort's).
AutoDetect(df, candidate_id) ==
    LET others == {df[i].model_id : i \in DOMAIN df} \ {candidate_id}
    IN  {m \in others : \A o \in others : Len(OfModel(df, o)) <= Len(OfModel(df, m))}

\* gatekeeper.py evaluate_promotion, from the fetched rows on; active_id is
\* the baseline named or detected, NoModel when there is none.
evaluate_promotion(data, candidate_id, active_id) ==
    IF Len(data) = 0 THEN GateResult(FALSE, FALSE, {}, "No data available.", NoModel)
    ELSE IF active_id = NoModel
    THEN GateResult(FALSE, FALSE, {}, "Could not identify Active model.", NoModel)
    ELSE LET cand_metrics == calculate_metrics(OfModel(data, candidate_id))
             active_metrics == calculate_metrics(OfModel(data, active_id))
         IN  IF ~HasKey(cand_metrics, "count") \/ ~HasKey(active_metrics, "win_rate")
             THEN GateResult(TRUE, FALSE, {}, "", active_id)
             ELSE LET reasons == GateReasons(cand_metrics, active_metrics)
                  IN  GateResult(FALSE, reasons = {}, reasons, "", active_id)

\* The rows of the active model 1 in the signal store: 55 wins of 100, 30 of
\* 50 while TRENDING and 25 of 50 while RANGING.
ActiveRows == Block(1, 30, 20, 60, "TRENDING") \o Block(1, 25, 25, 60, "RANGING")

\* The rows of the candidate 2: 32 wins of 50 when every rule is met; short
\* drops a row, weak loses where VOLATILE, regress loses where TRENDING,
\* uncal loses at high confidence.
CandidateRows(short, weak, regress, uncal) ==
    Block(2, IF uncal THEN 11 ELSE 15, IF uncal THEN 9 ELSE 5, 80, "TRENDING")
    \o Block(2, IF regress THEN 0 ELSE IF uncal THEN 9 ELSE 5,
                IF regress THEN 10 ELSE IF uncal THEN 1 ELSE 5, 60, "TRENDING")
    \o Block(2, IF weak THEN 7 ELSE IF regress THEN 17 ELSE 12,
                (IF short THEN 19 ELSE 20)
                - (IF weak THEN 7 ELSE IF regress THEN 17 ELSE 12), 60, "VOLATILE")

\* What the signal store may hold when the gate runs: the sixteen ways the
\* candidate meets or misses the four rules, then no signal yet, the
\* candidate's signals only, none of the candidate, most rows by model 3, and
\* a candidate with signals of confidence 0.75, 0.5, 0 and 1.
GateInputs ==
    [i \in 1..21 |->
        IF i <= 16
        THEN ActiveRows \o CandidateRows((i - 1) % 2 = 1, ((i - 1) \div 2) % 2 = 1,
                                         ((i - 1) \div 4) % 2 = 1, (i - 1) \div 8 = 1)
        ELSE IF i = 17 THEN <<>>
        ELSE IF i = 18 THEN CandidateRows(FALSE, FALSE, FALSE, FALSE)
        ELSE IF i = 19 THEN ActiveRows
        ELSE IF i = 20
        THEN ActiveRows \o CandidateRows(FALSE, FALSE, FALSE, FALSE)
                 \o Block(3, 60, 60, 60, "TRENDING")
        ELSE ActiveRows \o Block(2, 16, 4, 75, "TRENDING") \o Block(2, 8, 7, 50, "TRENDING")
                 \o Block(2, 5, 5, 0, "RANGING") \o Block(2, 4, 1, 100, "RANGING")]

\* evaluate_promotion and the detection of the baseline on every store
\* content of GateInputs, computed once.
GateRuns ==
    [i \in DOMAIN GateInputs, c \in ModelFiles, b \in 0..MaxModels |->
        evaluate_promotion(GateInputs[i], c, b)]

Detected == [i \in DOMAIN GateInputs, c \in ModelFiles |-> AutoDetect(GateInputs[i], c)]

\* ------------------------------------------------------ threshold replay

\* replay_thresholds.py BASELINE_CONF, in hundredths.
BASELINE_CONF == 60

\* The values config.confidence.min of a proposal takes here, in hundredths.
ProposedMins == {50, 70}

\* df[df['confidence'] >= cutoff]
AtLeast(df, cutoff) == SelectSeq(df, LAMBDA s : s.confidence >= cutoff)

Greatest(S) == CHOOSE x \in S : \A y \in S : y <= x

Least(S) == CHOOSE x \in S : \A y \in S : x <= y

\* replay_thresholds.py calculate_drawdown: the least of cum_pnl - peak, peak
\* being the running maximum of cum_pnl itself.
calculate_drawdown(df) ==
    IF Len(df) = 0 THEN 0
    ELSE LET cum_pnl == [i \in DOMAIN df |-> TotalPnl(SubSeq(df, 1, i))]
             peak == [i \in DOMAIN df |-> Greatest({cum_pnl[j] : j \in 1..i})]
         IN  Least({cum_pnl[i] - peak[i] : i \in DOMAIN df})

\* The versions propose_thresholds.py stamps on proposals: the minutes of the
\* clock.
ProposalVersions == {1, 2}

\* The double base - 0.01 exceeds the double sim: sim < base - 0.01.
BelowLess(sim, base, lim) ==
    /\ FloatGreater(Double(base), Double(lim))
    /\ FloatGreater(FloatSub(Double(base), Double(lim)), Double(sim))

\* What replay_validation.json holds: the version of the proposal replayed,
\* the verdict, its reasons and, for both cutoffs, the cutoff ('threshold')
\* and the statistics under it.
Stats(threshold, win_rate, total_pnl, max_drawdown) ==
    [threshold |-> threshold, win_rate |-> win_rate, total_pnl |-> total_pnl,
     max_drawdown |-> max_drawdown]

Validation(proposal_ver, passed, reasons, baseline, simulated) ==
    [exists |-> TRUE, proposal_ver |-> proposal_ver, passed |-> passed,
     reasons |-> reasons, baseline |-> baseline, simulated |-> simulated]

NoValidation ==
    [Validation(0, FALSE, {}, Stats(0, <<0, 1>>, 0, 0), Stats(0, <<0, 1>>, 0, 0))
        EXCEPT !.exists = FALSE]

\* replay_thresholds.py from the fetched rows on, for the proposal of version
\* ver and cutoff min: how the run ends and the document it writes.
ReplayOutcome(data, ver, min) ==
    IF Len(data) = 0 THEN [end |-> "NO_DATA", doc |-> NoValidation]
    ELSE
    LET df_base == AtLeast(data, BASELINE_CONF)
        df_sim == AtLeast(data, min)
        metrics_base == calculate_metrics(df_base)
        metrics_sim == calculate_metrics(df_sim)
        base_dd == calculate_drawdown(df_base)
        sim_dd == calculate_drawdown(df_sim)
    IN  IF ~HasKey(metrics_base, "count") \/ ~HasKey(metrics_sim, "count")
        THEN [end |-> "RAISED", doc |-> NoValidation]
        ELSE
        LET degraded == BelowLess(metrics_sim.win_rate, metrics_base.win_rate, <<1, 100>>)
            dropped == /\ 10 * metrics_sim.total_pnl < 8 * metrics_base.total_pnl
                       /\ metrics_sim.total_pnl > 0
            worsened == 10 * sim_dd < 11 * base_dd
        IN  [end |-> "DONE",
             doc |-> Validation(ver, ~degraded /\ ~worsened,
                        (IF degraded THEN {"WinRateDegraded"} ELSE {})
                        \cup (IF dropped THEN {"Warning"} ELSE {})
                        \cup (IF worsened THEN {"DrawdownWorsened"} ELSE {}),
                        Stats(BASELINE_CONF, metrics_base.win_rate,
                              metrics_base.total_pnl, base_dd),
                        Stats(min, metrics_sim.win_rate, metrics_sim.total_pnl, sim_dd))]

\* n rows of one confidence, outcome and PnL.
Trades(n, outcome, confidence, realized_pnl) ==
    [i \in 1..n |-> Signal(1, outcome, confidence, realized_pnl, "ALL", 0)]

\* What the signal store may hold when the replay runs, in the order of the
\* rows: (1) the higher cutoff trades better; (2) it trades worse; (3) under
\* the lower cutoff 9 wins of 100 against 1 of 10, PnL never falling; (4) the
\* lower cutoff deepens the drawdown from -10 to -12; (5) from -10 to -11;
\* (6) the higher cutoff halves a positive PnL; (7) no row reaches 0.70;
\* (8) no row reaches 0.60; (9) no signal yet.
ReplayInputs ==
    <<Trades(3, "WIN", 80, 1) \o Trades(2, "LOSS", 65, -1) \o Trades(2, "WIN", 65, 1)
          \o Trades(1, "LOSS", 80, -1) \o Trades(1, "LOSS", 55, -1),
      Trades(4, "WIN", 65, 1) \o Trades(3, "LOSS", 80, -1) \o Trades(1, "WIN", 80, 1),
      Trades(1, "WIN", 80, 1) \o Trades(9, "LOSS", 80, 0)
          \o Trades(8, "WIN", 55, 1) \o Trades(82, "LOSS", 55, 0),
      Trades(20, "WIN", 80, 1) \o Trades(1, "LOSS", 80, -10) \o Trades(1, "LOSS", 55, -2)
          \o Trades(20, "WIN", 55, 1),
      Trades(20, "WIN", 80, 1) \o Trades(1, "LOSS", 80, -10) \o Trades(1, "LOSS", 55, -1)
          \o Trades(20, "WIN", 55, 1),
      Trades(4, "WIN", 80, 1) \o Trades(4, "WIN", 65, 1),
      Trades(2, "WIN", 65, 1) \o Trades(1, "LOSS", 65, -1),
      Trades(2, "WIN", 55, 1) \o Trades(1, "LOSS", 55, -1),
      <<>>>>

\* The replay on every store content of ReplayInputs for a proposal of either
\* version and cutoff, computed once.
ReplayRuns ==
    [i \in DOMAIN ReplayInputs, ver \in ProposalVersions, min \in ProposedMins |->
        ReplayOutcome(ReplayInputs[i], ver, min)]

\* threshold_proposal.json: whether it exists, its 'version' and its
\* config.confidence.min.
Proposal(version, min) == [exists |-> TRUE, version |-> version, min |-> min]

NoProposal == [Proposal(0, 0) EXCEPT !.exists = FALSE]

\* Nothing was typed at the prompts of approve_threshold.py.
NoSignoff == [approver |-> "", confirm |-> ""]


\* --------------------------------------------------------- decay detection

\* The signals of one day: count rows of which wins are WIN.
DayRows(day, count, wins) ==
    [i \in 1..count |-> Signal(1, IF i <= wins THEN "WIN" ELSE "LOSS", 60,
                               IF i <= wins THEN 1 ELSE -1, "ALL", day)]

\* df.resample('D').agg(count, wins): a bin for every calendar day from the
\* first signal to the last, those without signals included.
DailyStats(df) ==
    LET days == {df[i].day : i \in DOMAIN df}
    IN  [k \in 1..(Greatest(days) - Least(days) + 1) |->
            LET rows == SelectSeq(df, LAMBDA s : s.day = Least(days) + k - 1)
            IN  [count |-> Len(rows), wins |-> Wins(rows)]]

\* daily_stats[daily_stats['count'] > 5]
ValidDays(df) == SelectSeq(DailyStats(df), LAMBDA d : d.count > 5)

\* The least common multiple of the daily counts.
CommonCount(days) ==
    LET gcd(a, b) == Greatest({d \in 1..a : a % d = 0 /\ b % d = 0})
        lcm[i \in 0..Len(days)] ==
            IF i = 0 THEN 1
            ELSE (lcm[i - 1] * days[i].count) \div gcd(lcm[i - 1], days[i].count)
    IN  lcm[Len(days)]

\* stats.linregress(x, y).slope for x = 0, 1, ... and y the daily win rates:
\* sum((x - mean x)(y - mean y)) / sum((x - mean x)^2), here as the exact
\* fraction <<dividend, divisor>> with a positive divisor.
Slope(days) ==
    LET n == Len(days)
        L == CommonCount(days)
        y(i) == days[i].wins * (L \div days[i].count)
        sum_xy[i \in 0..n] == IF i = 0 THEN 0 ELSE sum_xy[i - 1] + (i - 1) * y(i)
        sum_y[i \in 0..n] == IF i = 0 THEN 0 ELSE sum_y[i - 1] + y(i)
        sum_x[i \in 0..n] == IF i = 0 THEN 0 ELSE sum_x[i - 1] + (i - 1)
        sum_xx[i \in 0..n] == IF i = 0 THEN 0 ELSE sum_xx[i - 1] + (i - 1) * (i - 1)
    IN  <<n * sum_xy[n] - sum_x[n] * sum_y[n],
          L * (n * sum_xx[n] - sum_x[n] * sum_x[n])>>

\* detect_decay.py decay_threshold, in thousandths per day.
DECAY_THRESHOLD == -5

\* What slope < decay_threshold may come to.  linregress computes the slope in
\* doubles, a few units in the last place off the exact fraction: away from
\* the threshold the comparison is that of the fraction; for a fraction equal
\* to the threshold the rounding errors decide (for the daily rates 0.5, 0.55,
\* 0.5, 0.5, 0.5 the double is -0.0050000000000000044, below; for 0.4, 0.45,
\* 0.4, 0.4, 0.4 it is -0.004999999999999999, not below).
SlopeVerdicts(slope) ==
    IF 1000 * slope[1] < DECAY_THRESHOLD * slope[2] THEN {"DECAY"}
    ELSE IF 1000 * slope[1] > DECAY_THRESHOLD * slope[2] THEN {"STABLE"}
    ELSE {"DECAY", "STABLE"}

\* detect_decay.py from the fetched rows to the comparison: the early returns
\* and what the slope comes to.
DecayVerdicts(data) ==
    IF Len(data) = 0 THEN {"NO_DATA"}
    ELSE IF Len(ValidDays(data)) < 5 THEN {"NO_DATA"}
    ELSE SlopeVerdicts(Slope(ValidDays(data)))

\* The rows of consecutive days: days[k] is the pair of the count and the
\* wins of day k.
History(days) ==
    LET rows[k \in 0..Len(days)] ==
            IF k = 0 THEN <<>> ELSE rows[k - 1] \o DayRows(k, days[k][1], days[k][2])
    IN  rows[Len(days)]

\* What the signal store may hold when the decay monitor runs: (1) seven days
\* of 100 signals, the win rate falling by a hundredth a day; (2) five days
\* of 20 signals whose slope is -0.005; (3) five days without a trend; (4) a
\* steep fall over seven days of which four have more than 5 signals; (5) the
\* fall over five days of 6 signals each, days without signals between
\* them; (6) a collapse on a sixth day of 5 signals after five level
\* days; (7) a rise; (8) no signal yet.
DecayInputs ==
    <<History(<<<<100, 56>>, <<100, 55>>, <<100, 54>>, <<100, 53>>, <<100, 52>>,
                <<100, 51>>, <<100, 50>>>>),
      History(<<<<20, 10>>, <<20, 11>>, <<20, 10>>, <<20, 10>>, <<20, 10>>>>),
      History(<<<<20, 10>>, <<20, 10>>, <<20, 11>>, <<20, 10>>, <<20, 10>>>>),
      History(<<<<20, 18>>, <<5, 4>>, <<20, 14>>, <<5, 3>>, <<20, 10>>, <<5, 2>>,
                <<20, 6>>>>),
      History(<<<<6, 5>>, <<0, 0>>, <<6, 4>>, <<0, 0>>, <<6, 3>>, <<6, 2>>, <<0, 0>>,
                <<6, 1>>>>),
      History(<<<<20, 10>>, <<20, 10>>, <<20, 10>>, <<20, 10>>, <<20, 10>>, <<5, 0>>>>),
      History(<<<<20, 8>>, <<20, 9>>, <<20, 10>>, <<20, 11>>, <<20, 12>>>>),
      <<>>>>

\* detect_decay.py on every store content of DecayInputs, computed once: the
\* valid days and what the run may come to.
DecayRuns ==
    [i \in DOMAIN DecayInputs |->
        [valid |-> IF Len(DecayInputs[i]) = 0 THEN <<>> ELSE ValidDays(DecayInputs[i]),
         verdicts |-> DecayVerdicts(DecayInputs[i])]]

\* --------------------------------------------------------------- initial

IdleJob == [kind |-> "idle", arg |-> NoModel, pc |-> "idle", models |-> <<>>, exit |-> 0]

\* No scan has run.
NoReport == [violations |-> {}, verified |-> {}, discovered |-> {}, exit |-> 0]

\* No registration has been recorded.
NoRegistered == [models |-> [f \in {} |-> <<>>], datasets |-> [d \in {} |-> <<>>]]

\* No report file (os.path.exists is false).
NoAlertReport == [exists |-> FALSE, alerts |-> {}]

\* No model configuration (CONFIG_FILE does not exist).
NoModelConfig == [exists |-> FALSE, active_model |-> NoModel, previous_model |-> NoModel]

\* No status document (STATUS_FILE does not exist).
NoStatusDoc == [reason |-> {}, actor |-> "NONE", timestamp |-> 0]

\* The artifacts hold the bytes they were trained with, no dataset has been
\* captured, no monitor has run and the safety status was never written.
\* No analytics run has ended yet.
InitAnalytics ==
    /\ fetched = 0
    /\ gateResult = NoGateResult
    /\ gateCall = [candidate |-> NoModel, named |-> NoModel]
    /\ proposal = NoProposal
    /\ validation = NoValidation
    /\ thresholdVersions = {}
    /\ signoff = NoSignoff
    /\ runEnd = "NONE"
    /\ storeSeen = "NONE"
    /\ endedEarly = {}
    /\ modelCache = {}

InitExt ==
    /\ content = [f \in ModelFiles |-> OriginalBytes(f)]
    /\ datasetFiles = [d \in {} |-> <<>>]
    /\ datasets = <<>>
    /\ scanReport = NoReport
    /\ regBytes = NoRegistered
    /\ scores = DefaultScores
    /\ replayErrs = {}
    /\ driftReport = NoAlertReport
    /\ decayReport = NoAlertReport
    /\ regimeReport = NoAlertReport
    /\ thresholdAlerts = {}
    /\ statusDoc = NoStatusDoc
    /\ now = 0
    /\ response = "NONE"
    /\ InitAnalytics

Init ==
    /\ modelFiles = {}
    /\ modelConfig = NoModelConfig
    /\ metaStatus = [f \in ModelFiles |-> "ABSENT"]
    /\ manifest = <<>>
    /\ pointer = NoModel
    /\ anchors = {}
    /\ last = [op |-> "none", arg |-> NoModel, exit |-> 0]
    /\ everPromoted = FALSE
    /\ replayVerdict = [f \in ModelFiles |-> "NONE"]
    /\ gateVerdict = [f \in ModelFiles |-> "NONE"]
    /\ aiStatus = "ABSENT"
    /\ partial = {}
    /\ jobs = [j \in Jobs |-> IdleJob]
    /\ InitExt

TypeOK ==
    /\ modelFiles \subseteq ModelFiles
    /\ metaStatus \in [ModelFiles -> MetaStates]
    /\ \A i \in DOMAIN manifest :
            manifest[i].filename \in ModelFiles /\ manifest[i].state \in EntryStates
    /\ pointer \in ModelFiles \cup {NoModel}
    /\ anchors \subseteq Anchors
    /\ partial \subseteq {"manifest", "pointer", "status"}
    /\ aiStatus \in {"ABSENT", "DISABLED"}

Ended(op, arg, exit) == last' = [op |-> op, arg |-> arg, exit |-> exit]

\* ------------------------------------------- the scripts, run to their end

\* train_v2.py: dumps the next version's artifact, then writes its metadata
\* (no 'validation_status'); a run interrupted between the two leaves the
\* artifact without metadata.
train(withMeta) ==
    LET f == Cardinality(modelFiles) + 1 IN
    /\ f \in ModelFiles
    /\ modelFiles' = modelFiles \cup {f}
    /\ metaStatus' = [metaStatus EXCEPT ![f] = IF withMeta THEN "UNKNOWN" ELSE "ABSENT"]
    /\ Ended("train", NoModel, 0)
    /\ UNCHANGED <<manifest, pointer, anchors, everPromoted>>

\* manage_models.py scan_models.
scan_models(order) ==
    /\ order \in Orders(modelFiles \ Filenames(manifest))
    /\ manifest' = ScanEntries(manifest, order, content)
    /\ Ended("scan_models", NoModel, 0)
    /\ UNCHANGED <<modelFiles, metaStatus, pointer, anchors, everPromoted>>

\* An operator tags a registered dataset ANCHOR (the tag evaluate_replay.py
\* get_anchors reads).
tag_anchor(a) ==
    /\ a \notin anchors
    /\ anchors' = anchors \cup {a}
    /\ Ended("tag_anchor", NoModel, 0)
    /\ UNCHANGED <<modelFiles, metaStatus, manifest, pointer, everPromoted>>

\* evaluate_replay.py main, up to its verdict; errs: the anchors on which
\* evaluate() raises.  SKIPPED: fewer than two models, or no anchor.
ReplayCandidate == manifest[Len(manifest)].filename

ReplayBaseline == manifest[Len(manifest) - 1].filename

\* Mutant of ReplayVerdict: a run without anchors has nothing that fails, and
\* passes.
ReplayVerdict_NoAnchorsPass(errs) ==
    IF Len(manifest) < 2 THEN "SKIPPED"
    ELSE IF ReplayFailed(ReplayCandidate, ReplayBaseline, anchors, errs)
         THEN "REJECTED"
         ELSE "PASSED"

ReplayVerdict(errs) ==
    IF Len(manifest) < 2 \/ anchors = {} THEN "SKIPPED"
    ELSE IF ReplayFailed(ReplayCandidate, ReplayBaseline, anchors, errs)
         THEN "REJECTED"
         ELSE "PASSED"

\* evaluate_replay.py main: exit code 1 on a rejection; a pass is recorded in
\* the candidate's metadata when that file exists.
evaluate_replay(errs) ==
    /\ errs \subseteq anchors
    /\ ReplayVerdict(errs) = "SKIPPED" => errs = {}
    /\ Ended("evaluate_replay", NoModel, IF ReplayVerdict(errs) = "REJECTED" THEN 1 ELSE 0)
    /\ metaStatus' =
            IF ReplayVerdict(errs) = "PASSED" /\ metaStatus[ReplayCandidate] # "ABSENT"
            THEN [metaStatus EXCEPT ![ReplayCandidate] = "PASSED"]
            ELSE metaStatus
    /\ UNCHANGED <<modelFiles, manifest, pointer, anchors, everPromoted>>

\* Mutant of PromoteExit: the validation status is read but not compared.
PromoteExit_NoStatusCheck(f) ==
    IF f \notin modelFiles THEN 1
    ELSE IF metaStatus[f] = "ABSENT" THEN 1
    ELSE IF f \notin Filenames(manifest) THEN 1
    ELSE 0

\* promote_model.py promote: exit code, 0 when it runs to the end.
PromoteExit(f) ==
    IF f \notin modelFiles THEN 1                    \* 1. Verify Existence
    ELSE IF metaStatus[f] = "ABSENT" THEN 1          \* 2. metadata not found
    ELSE IF metaStatus[f] # "PASSED" THEN 1          \*    status != 'PASSED'
    ELSE IF f \notin Filenames(manifest) THEN 1      \* 3. not updated
    ELSE 0

promote(f) ==
    /\ Ended("promote", f, PromoteExit(f))
    /\ IF PromoteExit(f) = 0
       THEN /\ manifest' = PromoteEntries(manifest, f)
            /\ pointer' = f
            /\ everPromoted' = TRUE
       ELSE UNCHANGED <<manifest, pointer, everPromoted>>
    /\ UNCHANGED <<modelFiles, metaStatus, anchors>>

\* rollback_model.py rollback: exit code, 0 when it runs to the end.
RollbackExit(t) ==
    IF t \notin modelFiles THEN 1                    \* 1. Verify Existence
    ELSE IF t \notin Filenames(manifest) THEN 1      \* not updated_target
    ELSE 0

rollback(t) ==
    /\ Ended("rollback", t, RollbackExit(t))
    /\ IF RollbackExit(t) = 0
       THEN /\ manifest' = RollbackEntries(manifest, t)
            /\ pointer' = t
       ELSE UNCHANGED <<manifest, pointer>>
    /\ UNCHANGED <<modelFiles, metaStatus, anchors, everPromoted>>

Next ==
    \/ \E withMeta \in BOOLEAN : train(withMeta) /\ UNCHANGED <<audit, conc, ext>>
    \/ \E order \in Orders(modelFiles \ Filenames(manifest)) :
            scan_models(order) /\ UNCHANGED <<audit, conc, ext>>
    \/ \E a \in Anchors : tag_anchor(a) /\ UNCHANGED <<audit, conc, ext>>
    \/ \E errs \in SUBSET anchors : evaluate_replay(errs) /\ UNCHANGED <<audit, conc, ext>>
    \/ \E f \in ModelFiles : promote(f) /\ UNCHANGED <<audit, conc, ext>>
    \/ \E t \in ModelFiles : rollback(t) /\ UNCHANGED <<audit, conc, ext>>

Spec == Init /\ [][Next]_vars

\* ------------------------------------- the gate and the verdict histories

\* The baseline of a gatekeeper run on the store content GateInputs[i]: the
\* one named on the command line, or else one the rows with the most signals
\* suggest.
Baselines(i, c, named) ==
    IF named # NoModel THEN {named}
    ELSE IF Detected[i, c] = {} THEN {NoModel}
    ELSE Detected[i, c]

\* gatekeeper.py __main__: exit code 0 on approval, 1 on denial and on the
\* traceback of an exception.  The verdict is printed, not stored:
\* gateVerdict is its history.  c: the candidate, named: the baseline given
\* (NoModel: none), i: the rows fetched are GateInputs[i], b: the baseline
\* compared with.
gatekeeper(c, named, i, b) ==
    /\ b \in Baselines(i, c, named)
    /\ gateVerdict' = [gateVerdict EXCEPT ![c] =
            IF GateRuns[i, c, b].approved THEN "APPROVED" ELSE "DENIED"]
    /\ Ended("gatekeeper", NoModel, IF GateRuns[i, c, b].approved THEN 0 ELSE 1)
    /\ UNCHANGED <<modelFiles, metaStatus, manifest, pointer, anchors, everPromoted>>

\* The verdict of a replay run, kept per candidate.
RecordReplay(errs) ==
    replayVerdict' =
        IF ReplayVerdict(errs) = "SKIPPED" THEN replayVerdict
        ELSE [replayVerdict EXCEPT ![ReplayCandidate] = ReplayVerdict(errs)]

NextAudit ==
    \/ \E withMeta \in BOOLEAN : train(withMeta) /\ UNCHANGED <<audit, conc, ext>>
    \/ \E order \in Orders(modelFiles \ Filenames(manifest)) :
            scan_models(order) /\ UNCHANGED <<audit, conc, ext>>
    \/ \E a \in Anchors : tag_anchor(a) /\ UNCHANGED <<audit, conc, ext>>
    \/ \E errs \in SUBSET anchors :
            evaluate_replay(errs) /\ RecordReplay(errs) /\ UNCHANGED <<gateVerdict, conc, ext>>
    \/ \E f \in ModelFiles : promote(f) /\ UNCHANGED <<audit, conc, ext>>
    \/ \E t \in ModelFiles : rollback(t) /\ UNCHANGED <<audit, conc, ext>>

SpecAudit == Init /\ [][NextAudit]_vars

NextGate ==
    \/ Next
    \/ \E c \in {f \in Filenames(manifest) : metaStatus[f] = "PASSED"},
          i \in DOMAIN GateInputs, b \in 0..MaxModels :
            gatekeeper(c, NoModel, i, b) /\ UNCHANGED <<replayVerdict, conc, ext>>

SpecGate == Init /\ [][NextGate]_vars

\* ------------------------------------------------ claims checked under Spec

\* C1: in every state reached by runs of the scripts, at most one manifest
\* entry is ACTIVE, and once a promote has succeeded exactly one is.
C1_OneActive ==
    /\ Cardinality(ActiveEntries(manifest)) <= 1
    /\ everPromoted => Cardinality(ActiveEntries(manifest)) = 1

\* C1 witness: after promotions and a rollback, three entries of which one
\* is ACTIVE, one ARCHIVED and one ROLLED_BACK.
C1_Witness ==
    /\ everPromoted
    /\ Cardinality(ActiveEntries(manifest)) = 1
    /\ \E i, j \in DOMAIN manifest :
            manifest[i].state = "ARCHIVED" /\ manifest[j].state = "ROLLED_BACK"

\* C6 (as claimed): every ACTIVE entry's artifact has validation status
\* PASSED in its metadata.
C6_ActiveIsValidated ==
    \A i \in DOMAIN manifest :
        manifest[i].state = "ACTIVE" => metaStatus[manifest[i].filename] = "PASSED"

\* The precondition C7 names, in the state promote starts in.
PromoteAllowed(f) ==
    /\ f \in modelFiles
    /\ metaStatus[f] = "PASSED"
    /\ f \in Filenames(manifest)

\* C7: a run of promote ends with exit code 0 exactly when the artifact
\* file exists, its metadata says PASSED and it has a manifest entry; in
\* every other case it ends with exit code 1 and leaves the manifest and the
\* active pointer as they were.
C7_PromoteContract ==
    [][last'.op = "promote" =>
        /\ last'.exit = (IF PromoteAllowed(last'.arg) THEN 0 ELSE 1)
        /\ ~PromoteAllowed(last'.arg) => manifest' = manifest /\ pointer' = pointer
        /\ PromoteAllowed(last'.arg) =>
                pointer' = last'.arg /\ StateOf(manifest', last'.arg) = "ACTIVE"]_vars

\* C7 witness: promote has just refused a registered artifact whose metadata
\* exists without PASSED, while another artifact is ACTIVE.
C7_Witness ==
    /\ last.op = "promote" /\ last.exit = 1
    /\ last.arg \in Filenames(manifest)
    /\ metaStatus[last.arg] = "UNKNOWN"
    /\ pointer \in ModelFiles /\ pointer # last.arg
    /\ StateOf(manifest, pointer) = "ACTIVE"

\* The frame of a rollback step: what C10 says of a run that fails, and of
\* the pointer, the target and the entries that were not ACTIVE.
RollbackFrame ==
    LET t == last'.arg IN
    IF t \in modelFiles /\ t \in Filenames(manifest)
    THEN /\ last'.exit = 0
         /\ pointer' = t
         /\ Filenames(manifest') = Filenames(manifest)
         /\ StateOf(manifest', t) = "ACTIVE"
         /\ \A i \in DOMAIN manifest :
                manifest[i].filename # t /\ manifest[i].state # "ACTIVE"
                    => manifest'[i] = manifest[i]
    ELSE /\ last'.exit = 1
         /\ manifest' = manifest
         /\ pointer' = pointer

\* C10 (as claimed): a successful rollback to T moves the previously ACTIVE
\* artifact to ROLLED_BACK, whichever artifact that is.
C10_RollbackAsClaimed ==
    [][last'.op = "rollback" =>
        /\ RollbackFrame
        /\ last'.exit = 0 =>
                \A i \in DOMAIN manifest :
                    manifest[i].state = "ACTIVE" => manifest'[i].state = "ROLLED_BACK"]_vars

\* C10 (amended): a successful rollback to T sets T ACTIVE, moves the
\* previously ACTIVE artifact, when it is not T itself, to ROLLED_BACK,
\* leaves every other entry as it was and points the active pointer at T; a
\* rollback whose target has no file or no entry ends with exit code 1 and
\* changes neither the manifest nor the pointer.
C10_RollbackContract ==
    [][last'.op = "rollback" =>
        /\ RollbackFrame
        /\ last'.exit = 0 =>
                \A i \in DOMAIN manifest :
                    manifest[i].state = "ACTIVE" /\ manifest[i].filename # last'.arg
                        => manifest'[i].state = "ROLLED_BACK"]_vars

\* C10 witness: a rollback has just succeeded on a registry of three entries:
\* the target ACTIVE, the outgoing artifact ROLLED_BACK, a third ARCHIVED.
C10_Witness ==
    /\ last.op = "rollback" /\ last.exit = 0
    /\ pointer = last.arg
    /\ StateOf(manifest, last.arg) = "ACTIVE"
    /\ \E i, j \in DOMAIN manifest :
            manifest[i].state = "ROLLED_BACK" /\ manifest[j].state = "ARCHIVED"

\* ------------------------------------- claims checked under SpecAudit, SpecGate

\* C8 (as claimed): promote does not succeed for an artifact whose most
\* recent replay-validation run rejected it.
C8_RejectedNotPromoted ==
    ~(last.op = "promote" /\ last.exit = 0 /\ replayVerdict[last.arg] = "REJECTED")

\* C9 (as claimed): promote succeeds only for an artifact whose most recent
\* gatekeeper run approved it (promote asks for no confirmation at all).
C9_PromotedOnlyIfApproved ==
    (last.op = "promote" /\ last.exit = 0) => gateVerdict[last.arg] = "APPROVED"

\* --------------------------------------------------------- concurrent jobs

Running(j) == jobs[j].pc \notin {"idle", "done"}

Finish(j, kind, arg, exit) ==
    jobs' = [jobs EXCEPT ![j] =
                [kind |-> kind, arg |-> arg, pc |-> "done", models |-> <<>>, exit |-> exit]]

Goto(j, pc) == jobs' = [jobs EXCEPT ![j].pc = pc]

\* A registry left by earlier runs (train, train, scan_models, tag_anchor,
\* evaluate_replay, rollback, train): model 1 ACTIVE, model 2 validated and
\* registered, model 3 trained and not yet registered.
InitDeployed ==
    /\ modelFiles = {1, 2, 3}
    /\ metaStatus = [f \in ModelFiles |-> IF f = 2 THEN "PASSED" ELSE "UNKNOWN"]
    /\ manifest = <<Entry(1, "ACTIVE"), Entry(2, "REGISTERED")>>
    /\ pointer = 1
    /\ anchors = {"anchor_a"}
    /\ last = [op |-> "train", arg |-> NoModel, exit |-> 0]
    /\ everPromoted = FALSE
    /\ replayVerdict = [f \in ModelFiles |-> "NONE"]
    /\ gateVerdict = [f \in ModelFiles |-> "NONE"]
    /\ aiStatus = "ABSENT"
    /\ partial = {}
    /\ jobs = [j \in Jobs |-> IdleJob]
    /\ InitExt

\* That registry where no model configuration was deployed.
InitConc == InitDeployed /\ modelConfig = NoModelConfig

\* promote_model.py promote, lines 23-62: the checks, the read of the
\* manifest (json.load raises on a truncated file: exit code 1) and the loop.
promote_begin(j, f) ==
    /\ jobs[j].pc = "idle"
    /\ IF "manifest" \in partial \/ PromoteExit(f) # 0
       THEN Finish(j, "promote", f, 1)
       ELSE jobs' = [jobs EXCEPT ![j] =
                [kind |-> "promote", arg |-> f, pc |-> "open_manifest",
                 models |-> PromoteEntries(manifest, f), exit |-> 0]]
    /\ UNCHANGED <<manifest, pointer, aiStatus, partial, quiet, audit, ext>>

\* rollback_model.py rollback, lines 23-41.
rollback_begin(j, t) ==
    /\ jobs[j].pc = "idle"
    /\ IF "manifest" \in partial \/ RollbackExit(t) # 0
       THEN Finish(j, "rollback", t, 1)
       ELSE jobs' = [jobs EXCEPT ![j] =
                [kind |-> "rollback", arg |-> t, pc |-> "open_manifest",
                 models |-> RollbackEntries(manifest, t), exit |-> 0]]
    /\ UNCHANGED <<manifest, pointer, aiStatus, partial, quiet, audit, ext>>

\* manage_models.py scan_models, lines 32-86: the read of the manifest and
\* the loop over the files; without a new file nothing is saved.
scan_begin(j, order) ==
    /\ jobs[j].pc = "idle"
    /\ IF "manifest" \in partial
       THEN order = <<>> /\ Finish(j, "scan_models", NoModel, 1)
       ELSE /\ order \in Orders(modelFiles \ Filenames(manifest))
            /\ IF order = <<>>
               THEN Finish(j, "scan_models", NoModel, 0)
               ELSE jobs' = [jobs EXCEPT ![j] =
                        [kind |-> "scan_models", arg |-> NoModel, pc |-> "open_manifest",
                         models |-> ScanEntries(manifest, order, content), exit |-> 0]]
    /\ UNCHANGED <<manifest, pointer, aiStatus, partial, quiet, audit, ext>>

\* detect_auto_disable.py, lines 15-55: the reports are read and, with a
\* trigger among them, the status is written.
auto_disable_begin(j, triggers) ==
    /\ jobs[j].pc = "idle"
    /\ IF triggers = {}
       THEN Finish(j, "detect_auto_disable", NoModel, 0)
       ELSE jobs' = [jobs EXCEPT ![j] =
                [kind |-> "detect_auto_disable", arg |-> NoModel, pc |-> "open_status",
                 models |-> <<>>, exit |-> 0]]
    /\ UNCHANGED <<manifest, pointer, aiStatus, partial, quiet, audit, ext>>

\* save_json / save_manifest: open(path, 'w') truncates the manifest.
manifest_open(j) ==
    /\ jobs[j].pc = "open_manifest"
    /\ manifest' = <<>>
    /\ partial' = partial \cup {"manifest"}
    /\ Goto(j, "dump_manifest")
    /\ UNCHANGED <<pointer, aiStatus, quiet, audit, ext>>

\* save_json / save_manifest: json.dump writes the job's document.
manifest_dump(j) ==
    /\ jobs[j].pc = "dump_manifest"
    /\ manifest' = jobs[j].models
    /\ partial' = partial \ {"manifest"}
    /\ IF jobs[j].kind = "scan_models"
       THEN Finish(j, "scan_models", NoModel, 0)
       ELSE Goto(j, "open_pointer")
    /\ UNCHANGED <<pointer, aiStatus, quiet, audit, ext>>

\* save_json(ACTIVE_POINTER_PATH, pointer): open(path, 'w').
pointer_open(j) ==
    /\ jobs[j].pc = "open_pointer"
    /\ pointer' = NoModel
    /\ partial' = partial \cup {"pointer"}
    /\ Goto(j, "dump_pointer")
    /\ UNCHANGED <<manifest, aiStatus, quiet, audit, ext>>

\* save_json(ACTIVE_POINTER_PATH, pointer): json.dump; the job ends.
pointer_dump(j) ==
    /\ jobs[j].pc = "dump_pointer"
    /\ pointer' = jobs[j].arg
    /\ partial' = partial \ {"pointer"}
    /\ jobs' = [jobs EXCEPT ![j].pc = "done"]
    /\ UNCHANGED <<manifest, aiStatus, quiet, audit, ext>>

\* detect_auto_disable.py "Write Lock": open(STATUS_FILE, "w").
status_open(j) ==
    /\ jobs[j].pc = "open_status"
    /\ aiStatus' = "ABSENT"
    /\ partial' = partial \cup {"status"}
    /\ Goto(j, "dump_status")
    /\ UNCHANGED <<manifest, pointer, quiet, audit, ext>>

\* detect_auto_disable.py "Write Lock": json.dump(status, f).
status_dump(j) ==
    /\ jobs[j].pc = "dump_status"
    /\ aiStatus' = "DISABLED"
    /\ partial' = partial \ {"status"}
    /\ jobs' = [jobs EXCEPT ![j].pc = "done"]
    /\ UNCHANGED <<manifest, pointer, quiet, audit, ext>>

\* A job is killed between two of its steps (exit code 137): what it has
\* truncated stays truncated.
interrupt(j) ==
    /\ Running(j)
    /\ jobs' = [jobs EXCEPT ![j].pc = "done", ![j].exit = 137]
    /\ UNCHANGED <<manifest, pointer, aiStatus, partial, quiet, audit, ext>>

NextConc ==
    \/ \E j \in Jobs, f \in ModelFiles : promote_begin(j, f)
    \/ \E j \in Jobs, t \in ModelFiles : rollback_begin(j, t)
    \/ \E j \in Jobs, order \in Orders(modelFiles \ Filenames(manifest)) \cup {<<>>} :
            scan_begin(j, order)
    \/ \E j \in Jobs, triggers \in SUBSET {"Drift", "Decay", "Regime"} :
            auto_disable_begin(j, triggers)
    \/ \E j \in Jobs : manifest_open(j)
    \/ \E j \in Jobs : manifest_dump(j)
    \/ \E j \in Jobs : pointer_open(j)
    \/ \E j \in Jobs : pointer_dump(j)
    \/ \E j \in Jobs : status_open(j)
    \/ \E j \in Jobs : status_dump(j)
    \/ \E j \in Jobs : interrupt(j)

SpecConc == InitConc /\ [][NextConc]_vars

\* ------------------------------------------- claims checked under SpecConc

\* C2 (as claimed): while a promote that runs to its end is the only job, a
\* reader of complete documents finds the manifest and the active pointer
\* naming one and the same active artifact (the outgoing or the incoming
\* one), and at its end the incoming artifact is ACTIVE and no other is.
C2_PromoteIsOneTransaction ==
    \A j \in Jobs :
        (/\ jobs[j].kind = "promote" /\ jobs[j].exit = 0
         /\ \A k \in Jobs \ {j} : jobs[k].pc = "idle"
         /\ partial = {})
        => /\ ActiveFiles(manifest) = {pointer}
           /\ jobs[j].pc = "done" => pointer = jobs[j].arg

\* C3 (as claimed): once concurrent promote and rollback jobs for different
\* artifacts have all run to their end, the active pointer names the
\* artifact whose manifest entry is ACTIVE.
C3_PointerNamesActive ==
    (/\ \A j \in Jobs : jobs[j].pc = "done" /\ jobs[j].exit = 0
     /\ \A j \in Jobs : jobs[j].kind \in {"promote", "rollback"}
     /\ \A j, k \in Jobs : j # k => jobs[j].arg # jobs[k].arg)
    => ActiveFiles(manifest) = {pointer}

\* C4 (as claimed): once a scan job and a promote job have both run to
\* their end, the manifest holds an entry for every artifact file and the
\* promoted artifact's entry is ACTIVE.
C4_NoLostUpdate ==
    \A j, k \in Jobs :
        (/\ jobs[j].kind = "scan_models" /\ jobs[j].pc = "done" /\ jobs[j].exit = 0
         /\ jobs[k].kind = "promote" /\ jobs[k].pc = "done" /\ jobs[k].exit = 0)
        => /\ modelFiles \subseteq Filenames(manifest)
           /\ StateOf(manifest, jobs[k].arg) = "ACTIVE"

\* C5 (as claimed): at no moment is the manifest, the active pointer or the
\* status document a truncated file.
C5_WritesAtomic == partial = {}

\* ------------------------------------------------- replay validation alone

\* The correct predictions, of ANCHOR_ROWS, the two compared artifacts may
\* have on an anchor.
ScoreRange == (ANCHOR_ROWS - 3)..ANCHOR_ROWS

\* A registry left by train, train, scan_models: two registered artifacts
\* with metadata, of which the second is the candidate of the next replay
\* run; their scores on the anchors are any of ScoreRange.
InitReplay ==
    /\ modelFiles = {1, 2}
    /\ metaStatus = [f \in ModelFiles |-> IF f \in {1, 2} THEN "UNKNOWN" ELSE "ABSENT"]
    /\ manifest = <<Entry(1, "REGISTERED"), Entry(2, "REGISTERED")>>
    /\ pointer = NoModel
    /\ anchors = {}
    /\ last = [op |-> "scan_models", arg |-> NoModel, exit |-> 0]
    /\ everPromoted = FALSE
    /\ replayVerdict = [f \in ModelFiles |-> "NONE"]
    /\ gateVerdict = [f \in ModelFiles |-> "NONE"]
    /\ aiStatus = "ABSENT"
    /\ partial = {}
    /\ jobs = [j \in Jobs |-> IdleJob]
    /\ content = [f \in ModelFiles |-> OriginalBytes(f)]
    /\ datasetFiles = [d \in {} |-> <<>>]
    /\ datasets = <<>>
    /\ scanReport = NoReport
    /\ regBytes = NoRegistered
    /\ \E two \in [{1, 2} -> [Anchors -> ScoreRange]] :
            scores = [m \in ModelFiles |-> IF m \in {1, 2} THEN two[m] ELSE DefaultScores[m]]
    /\ replayErrs = {}
    /\ driftReport = NoAlertReport
    /\ decayReport = NoAlertReport
    /\ regimeReport = NoAlertReport
    /\ thresholdAlerts = {}
    /\ statusDoc = NoStatusDoc
    /\ now = 0
    /\ response = "NONE"
    /\ InitAnalytics
    /\ modelConfig = NoModelConfig

NextReplay ==
    \/ \E a \in Anchors :
            tag_anchor(a) /\ UNCHANGED <<audit, conc, integ, replay, safety, analytics>>
    \/ \E errs \in SUBSET anchors :
            /\ evaluate_replay(errs)
            /\ replayErrs' = errs
            /\ UNCHANGED <<audit, conc, integ, scores, safety, analytics>>

SpecReplay == InitReplay /\ [][NextReplay]_vars

\* candidate accuracy - baseline accuracy < -0.05, in exact arithmetic.
ExactDeltaBelow(c, b) == 100 * (c - b) < -ACC_REGRESSION_TOLERANCE * ANCHOR_ROWS

\* C20 (as claimed): a replay run over at least one anchor fails the
\* candidate (exit code 1) exactly when, on some anchor, the evaluation
\* raised or candidate accuracy minus baseline accuracy is below -0.05, a
\* difference of exactly -0.05 passing; and it writes PASSED into the
\* candidate's metadata only when no anchor failed.
C20_ReplayRule ==
    [][(last'.op = "evaluate_replay" /\ Len(manifest) >= 2 /\ anchors # {}) =>
        LET failing == \E a \in anchors :
                           \/ a \in replayErrs'
                           \/ ExactDeltaBelow(Accuracy(ReplayCandidate, a),
                                              Accuracy(ReplayBaseline, a))
        IN  /\ last'.exit = (IF failing THEN 1 ELSE 0)
            /\ metaStatus' # metaStatus =>
                    ~failing /\ metaStatus'[ReplayCandidate] = "PASSED"]_vars

\* -------------------------------------- content integrity of the registries

\* train_v2.py run again without a new MODEL_NAME: joblib.dump rewrites the
\* artifact in place, then the metadata is written anew (no
\* 'validation_status'); an interrupted run leaves the old metadata.
retrain(f, withMeta) ==
    /\ f \in modelFiles
    /\ Tamper(content[f]) # content[f]
    /\ content' = [content EXCEPT ![f] = Tamper(@)]
    /\ metaStatus' = IF withMeta THEN [metaStatus EXCEPT ![f] = "UNKNOWN"] ELSE metaStatus
    /\ Ended("train", f, 0)
    /\ UNCHANGED <<modelFiles, manifest, pointer, anchors, everPromoted>>

\* A dataset file is rewritten in place: what scan_datasets calls "has
\* mutated".
rewrite_dataset(d) ==
    /\ d \in DOMAIN datasetFiles
    /\ Tamper(datasetFiles[d]) # datasetFiles[d]
    /\ datasetFiles' = [datasetFiles EXCEPT ![d] = Tamper(@)]
    /\ Ended("rewrite_dataset", NoModel, 0)
    /\ UNCHANGED <<modelFiles, metaStatus, manifest, pointer, anchors, everPromoted>>

\* manage_datasets.py scan_datasets.
scan_datasets(order) ==
    /\ order \in Orders(DOMAIN datasetFiles \ Filenames(datasets))
    /\ datasets' = ScanDatasetEntries(datasets, order, datasetFiles)
    /\ Ended("scan_datasets", NoModel, 0)
    /\ UNCHANGED <<modelFiles, metaStatus, manifest, pointer, anchors, everPromoted>>

\* compose_dataset.py compose.  recent: the entries created within the
\* window; mayOverwrite: the process may write a read-only file (it runs as
\* root), else to_csv raises PermissionError on the composite a run of the
\* same second has locked.
compose(recent, mayOverwrite) ==
    LET srcs == ComposeSources(datasets, anchors, recent, datasetFiles)
        new_filename == CompositeName(now)
        merged == Merged(datasetFiles, srcs)
    IN  /\ recent \subseteq Filenames(datasets)
        /\ Len(datasets) < MaxDatasets
        /\ IF srcs = <<>>
           THEN /\ Ended("compose", NoModel, 0)
                /\ UNCHANGED <<datasetFiles, datasets>>
           ELSE IF new_filename \in DOMAIN datasetFiles /\ ~mayOverwrite
           THEN /\ Ended("compose", NoModel, 1)
                /\ UNCHANGED <<datasetFiles, datasets>>
           ELSE /\ Ended("compose", NoModel, 0)
                /\ datasetFiles' = [d \in DOMAIN datasetFiles \cup {new_filename} |->
                                        IF d = new_filename THEN merged ELSE datasetFiles[d]]
                /\ datasets' = Append(datasets, NewDatasetEntry(new_filename, merged, TRUE, srcs))
        /\ UNCHANGED <<modelFiles, metaStatus, manifest, pointer, anchors, everPromoted>>

\* A second passes.
tick ==
    /\ now < MaxClock
    /\ now' = now + 1

\* The bytes recorded for the files an entry was appended for.
Registered(reg, names, bytes) ==
    [f \in DOMAIN reg \cup names |-> IF f \in names THEN bytes[f] ELSE reg[f]]

\* The model registry left by earlier runs: model 1 ACTIVE, model 2
\* validated and registered, model 3 trained and not yet registered.  The
\* dataset registry holds the anchor the validation ran on; its captures
\* have been moved out of DATASET_DIR.
InitModelRegistry ==
    /\ modelFiles = {1, 2, 3}
    /\ metaStatus = [f \in ModelFiles |->
                        IF f = 2 THEN "PASSED" ELSE IF f \in {1, 3} THEN "UNKNOWN" ELSE "ABSENT"]
    /\ manifest = <<Entry(1, "ACTIVE"), Entry(2, "REGISTERED")>>
    /\ pointer = 1
    /\ content = [f \in ModelFiles |-> OriginalBytes(f)]
    /\ datasetFiles = [d \in {} |-> <<>>]

\* The dataset registry before any model is trained: the capture anchor_a
\* registered and tagged ANCHOR, the capture anchor_b not yet registered.
InitDatasetRegistry ==
    /\ modelFiles = {}
    /\ metaStatus = [f \in ModelFiles |-> "ABSENT"]
    /\ manifest = <<>>
    /\ pointer = NoModel
    /\ content = [f \in ModelFiles |-> OriginalBytes(f)]
    /\ datasetFiles = [d \in Anchors |-> RawBytes(d)]

InitReg ==
    /\ InitModelRegistry \/ InitDatasetRegistry
    /\ anchors = {"anchor_a"}
    /\ last = [op |-> "tag_anchor", arg |-> NoModel, exit |-> 0]
    /\ everPromoted = FALSE
    /\ replayVerdict = [f \in ModelFiles |-> "NONE"]
    /\ gateVerdict = [f \in ModelFiles |-> "NONE"]
    /\ aiStatus = "ABSENT"
    /\ partial = {}
    /\ jobs = [j \in Jobs |-> IdleJob]
    /\ datasets = <<NewDatasetEntry("anchor_a", RawBytes("anchor_a"), FALSE, <<>>)>>
    /\ scanReport = NoReport
    /\ regBytes = [models |-> [f \in Filenames(manifest) |-> OriginalBytes(f)],
                   datasets |-> [d \in {"anchor_a"} |-> RawBytes(d)]]
    /\ scores = DefaultScores
    /\ replayErrs = {}
    /\ driftReport = NoAlertReport
    /\ decayReport = NoAlertReport
    /\ regimeReport = NoAlertReport
    /\ thresholdAlerts = {}
    /\ statusDoc = NoStatusDoc
    /\ now = 0
    /\ response = "NONE"
    /\ InitAnalytics
    /\ modelConfig = NoModelConfig

NextReg ==
    \/ \E f \in ModelFiles, withMeta \in BOOLEAN :
            /\ retrain(f, withMeta)
            /\ scanReport' = NoReport
            /\ UNCHANGED <<audit, conc, datasetFiles, datasets, regBytes, replay, safety, analytics>>
    \/ \E d \in DOMAIN datasetFiles :
            /\ rewrite_dataset(d)
            /\ scanReport' = NoReport
            /\ UNCHANGED <<audit, conc, content, datasets, regBytes, replay, safety, analytics>>
    \/ \E order \in Orders(modelFiles \ Filenames(manifest)) :
            /\ scan_models(order)
            /\ scanReport' = ScanReport(manifest, modelFiles, content, order)
            /\ regBytes' = [regBytes EXCEPT !.models =
                                Registered(@, {order[i] : i \in DOMAIN order}, content)]
            /\ UNCHANGED <<audit, conc, content, datasetFiles, datasets, replay, safety, analytics>>
    \/ \E order \in Orders(DOMAIN datasetFiles \ Filenames(datasets)) :
            /\ scan_datasets(order)
            /\ scanReport' = ScanReport(datasets, DOMAIN datasetFiles, datasetFiles, order)
            /\ regBytes' = [regBytes EXCEPT !.datasets =
                                Registered(@, {order[i] : i \in DOMAIN order}, datasetFiles)]
            /\ UNCHANGED <<audit, conc, content, datasetFiles, replay, safety, analytics>>
    \/ \E recent \in SUBSET Filenames(datasets), mayOverwrite \in BOOLEAN :
            /\ compose(recent, mayOverwrite)
            /\ scanReport' = NoReport
            /\ regBytes' = [regBytes EXCEPT !.datasets =
                                Registered(@, IF Len(datasets') > Len(datasets)
                                              THEN {CompositeName(now)} ELSE {},
                                           datasetFiles')]
            /\ UNCHANGED <<audit, conc, content, replay, safety, analytics>>
    \/ \E a \in Anchors :
            /\ a \in Filenames(datasets)
            /\ tag_anchor(a)
            /\ scanReport' = NoReport
            /\ UNCHANGED <<audit, conc, content, datasetFiles, datasets, regBytes,
                           replay, safety, analytics>>
    \/ \E f \in ModelFiles :
            /\ promote(f)
            /\ scanReport' = NoReport
            /\ UNCHANGED <<audit, conc, content, datasetFiles, datasets, regBytes,
                           replay, safety, analytics>>
    \/ \E t \in ModelFiles :
            /\ rollback(t)
            /\ scanReport' = NoReport
            /\ UNCHANGED <<audit, conc, content, datasetFiles, datasets, regBytes,
                           replay, safety, analytics>>
    \/ tick /\ UNCHANGED <<modelFiles, metaStatus, manifest, pointer, anchors, last,
                           everPromoted, audit, conc, integ, replay, alarms, analytics>>

SpecReg == InitReg /\ [][NextReg]_vars

\* ------------------------------------------- claims checked under SpecReg

\* The entries of a registry stay where they are, each with its file name,
\* its checksum and its lock.
EntriesKept(before, after) ==
    \A i \in DOMAIN before :
        /\ i \in DOMAIN after
        /\ after[i].filename = before[i].filename
        /\ after[i].checksum = before[i].checksum
        /\ after[i].locked

\* C11: no run of a scan, of compose, of promote or of rollback changes the
\* checksum stored in an entry of the model manifest or of the dataset
\* manifest, whatever bytes the entry's file holds by then: entries are only
\* appended, and a mismatch is not repaired.
C11_ChecksumFrozen ==
    [][EntriesKept(manifest, manifest') /\ EntriesKept(datasets, datasets')]_vars

\* A model scan has found an artifact rewritten after it was registered, the
\* stored checksum still being that of the bytes registered.
C11_Witness ==
    /\ last.op = "scan_models"
    /\ \E f \in scanReport.violations :
            /\ content[f] # OriginalBytes(f)
            /\ StoredChecksum(manifest, f) = Sha256(OriginalBytes(f))

\* What a scan has to report of the files that had an entry when it began:
\* a violation for those whose bytes are no longer the registered ones, Ok
\* for the others.
ReportsChanges(files, bytes, registered) ==
    \A f \in (files \cap DOMAIN registered) \ scanReport.discovered :
        /\ f \in scanReport.violations <=> bytes[f] # registered[f]
        /\ f \in scanReport.verified <=> bytes[f] = registered[f]

C13_MismatchHalts ==
    (last.op \in {"scan_models", "scan_datasets"} /\ scanReport.violations # {}) =>
        /\ scanReport.exit # 0
        /\ scanReport.discovered = {}

\* Each file name has one entry at most.
OneEntryEach(entries) ==
    \A i, k \in DOMAIN entries : entries[i].filename = entries[k].filename => i = k

\* C14 (as claimed): registration is idempotent.  A scan that follows a scan
\* of the same registry, no file having changed in between, leaves the
\* manifest as it is; and registering a file name that has an entry never
\* replaces that entry nor adds a second one of that name.
C14_RegisterIdempotent ==
    /\ [][/\ (last.op = "scan_models" /\ last'.op = "scan_models") => manifest' = manifest
          /\ (last.op = "scan_datasets" /\ last'.op = "scan_datasets") => datasets' = datasets
          /\ EntriesKept(manifest, manifest') /\ EntriesKept(datasets, datasets')]_vars
    /\ [](OneEntryEach(manifest) /\ OneEntryEach(datasets))

\* The entries a step appends store the SHA-256 of the bytes their files
\* hold.
StoresDigest(before, after, bytes) ==
    \A i \in DOMAIN after \ DOMAIN before :
        after[i].checksum = Sha256(bytes[after[i].filename])

\* C15: the checksum stored in the entry a scan or compose registers for a
\* file is the SHA-256 of the bytes of that file, hashed in one piece.
C15_ChecksumRoundTrip ==
    [][/\ StoresDigest(manifest, manifest', content')
       /\ StoresDigest(datasets, datasets', datasetFiles')]_vars

\* A scan has registered an artifact that calculate_checksum reads in more
\* than one block.
C15_Witness ==
    /\ last.op = "scan_models"
    /\ \E f \in scanReport.discovered : Len(content[f]) > READ_BLOCK

\* ------------------------------------------------------ the safety circuit

\* The alert texts of the monitors (the measured numbers left out).
DRIFT_CRITICAL == "CRITICAL: Win Rate Collapse Detected"

DRIFT_WARNING == "WARNING: Win Rate Degradation"

DRIFT_OTHERS == {"Confidence distribution shifted", "Dominant Regime Changed"}

DRILL_CRITICAL == "CRITICAL: Win Rate Collapse Detected (-15%)"

THRESHOLD_CRITICAL == "CRITICAL: Win Rate Drift Detected!"

THRESHOLD_WARNING == "WARNING: Minor negative drift. Monitor closely."

DECAY_DETECTED == "DECAY DETECTED: Performance dropping"

VOLATILITY_EXPANSION == "VOLATILITY EXPANSION"

UNSTABLE_REGIME == "UNSTABLE REGIME"

UNKNOWN_REGIME == "UNKNOWN REGIME DOMINANCE"

\* "CRITICAL" in alert
HasCritical(alert) == alert \in {DRIFT_CRITICAL, DRILL_CRITICAL, THRESHOLD_CRITICAL}

\* Mutant of RegimeTrigger: every alert of the regime report trips the
\* circuit.
RegimeTrigger_AnyAlert(alert) ==
    alert \in {UNKNOWN_REGIME, VOLATILITY_EXPANSION, UNSTABLE_REGIME}

\* "UNKNOWN REGIME" in alert or "VOLATILITY EXPANSION" in alert
RegimeTrigger(alert) == alert \in {UNKNOWN_REGIME, VOLATILITY_EXPANSION}

\* detect_auto_disable.py, lines 15-42: the triggers gathered from the
\* reports that exist.
Triggers(drift, decay, regime) ==
    {<<"Drift", a>> : a \in {x \in drift.alerts : drift.exists /\ HasCritical(x)}}
    \cup {<<"Decay", a>> : a \in {x \in decay.alerts : decay.exists}}
    \cup {<<"Regime", a>> : a \in {x \in regime.alerts : regime.exists /\ RegimeTrigger(x)}}

\* Mutant of AutoDisableStatus: without a trigger the lock is lifted.
AutoDisableStatus_Recover(triggers, status) ==
    IF triggers # {} THEN "DISABLED" ELSE "ABSENT"

\* detect_auto_disable.py "4. Action": the status after the run; without a
\* trigger the status is unchanged.
AutoDisableStatus(triggers, status) ==
    IF triggers # {} THEN "DISABLED" ELSE status

\* detect_auto_disable.py, the document written with a trigger: reason,
\* timestamp and triggered_by; the file is opened with "w" and written
\* whatever it held.
AutoDisableDoc(triggers, doc, t) ==
    IF triggers # {}
    THEN [reason |-> triggers, actor |-> "detect_auto_disable.py", timestamp |-> t]
    ELSE doc

\* The registry, which no monitor and no run of the safety circuit touches.
registry == <<modelFiles, metaStatus, manifest, pointer, anchors, everPromoted>>

\* detect_drift.py.  wr: what the win rate of the current set is against the
\* baseline ("NO_DATA": one of the early returns, the report is not
\* written); others: the alerts of the confidence shift and of the regime
\* frequencies.
detect_drift(wr, others) ==
    /\ wr \in {"NO_DATA", "OK", "WARNING", "CRITICAL"}
    /\ others \subseteq DRIFT_OTHERS
    /\ wr = "NO_DATA" => others = {}
    /\ IF wr = "NO_DATA"
       THEN UNCHANGED driftReport
       ELSE driftReport' =
                    [exists |-> TRUE,
                     alerts |-> others \cup (IF wr = "CRITICAL" THEN {DRIFT_CRITICAL}
                                             ELSE IF wr = "WARNING" THEN {DRIFT_WARNING}
                                             ELSE {})]
    /\ Ended("detect_drift", NoModel, 0)
    /\ UNCHANGED <<decayReport, regimeReport, thresholdAlerts, aiStatus, statusDoc,
                   now, response>>

\* monitor_threshold_drift.py monitor_drift: the alerts are printed and
\* appended to drift_alerts.log; no report file is written.
monitor_threshold_drift(drift) ==
    /\ drift \in {"NO_DATA", "OK", "WARNING", "CRITICAL"}
    /\ IF drift = "NO_DATA"
       THEN UNCHANGED thresholdAlerts
       ELSE thresholdAlerts' = (IF drift = "CRITICAL" THEN {THRESHOLD_CRITICAL}
                                   ELSE IF drift = "WARNING" THEN {THRESHOLD_WARNING}
                                   ELSE {})
    /\ Ended("monitor_threshold_drift", NoModel, 0)
    /\ UNCHANGED <<driftReport, decayReport, regimeReport, aiStatus, statusDoc,
                   now, response>>

\* detect_decay.py: the slope of the daily win rates against -0.005.
detect_decay(slope) ==
    /\ slope \in {"NO_DATA", "STABLE", "DECAY"}
    /\ IF slope = "NO_DATA"
       THEN UNCHANGED decayReport
       ELSE decayReport' = [exists |-> TRUE,
                               alerts |-> IF slope = "DECAY" THEN {DECAY_DETECTED} ELSE {}]
    /\ Ended("detect_decay", NoModel, 0)
    /\ UNCHANGED <<driftReport, regimeReport, thresholdAlerts, aiStatus, statusDoc,
                   now, response>>

\* detect_regime_shift.py: alerts: those of the three checks that fire.
detect_regime_shift(data, alerts) ==
    /\ alerts \subseteq {VOLATILITY_EXPANSION, UNSTABLE_REGIME, UNKNOWN_REGIME}
    /\ ~data => alerts = {}
    /\ IF ~data
       THEN UNCHANGED regimeReport
       ELSE regimeReport' = [exists |-> TRUE, alerts |-> alerts]
    /\ Ended("detect_regime_shift", NoModel, 0)
    /\ UNCHANGED <<driftReport, decayReport, thresholdAlerts, aiStatus, statusDoc,
                   now, response>>

\* detect_auto_disable.py detect_auto_disable: the safety circuit.
detect_auto_disable ==
    LET triggers == Triggers(driftReport, decayReport, regimeReport) IN
    /\ aiStatus' = AutoDisableStatus(triggers, aiStatus)
    /\ statusDoc' = AutoDisableDoc(triggers, statusDoc, now)
    /\ Ended("detect_auto_disable", NoModel, 0)
    /\ UNCHANGED <<driftReport, decayReport, regimeReport, thresholdAlerts, now, response>>

\* emergency_stop.py emergency_stop: the admin kill switch.
emergency_stop(confirm) ==
    /\ confirm \in {"STOP", ""}
    /\ IF confirm # "STOP"
       THEN UNCHANGED <<aiStatus, statusDoc>>
       ELSE /\ aiStatus' = "DISABLED"
            /\ statusDoc' = [reason |-> {<<"Admin", "ADMIN_KILL_SWITCH_ACTIVATED">>},
                             actor |-> "ADMIN", timestamp |-> now]
    /\ Ended("emergency_stop", NoModel, 0)
    /\ UNCHANGED <<driftReport, decayReport, regimeReport, thresholdAlerts, now,
                   response>>

\* simulation_fire_drill.py run_fire_drill: the status is removed, a critical
\* drift report injected, the safety circuit run (it locks), then the status
\* and the drift report are removed.
run_fire_drill ==
    /\ aiStatus' = "ABSENT"
    /\ statusDoc' = NoStatusDoc
    /\ driftReport' = NoAlertReport
    /\ Ended("run_fire_drill", NoModel, 0)
    /\ UNCHANGED <<decayReport, regimeReport, thresholdAlerts, now, response>>

\* The manual override of the admin ("Admin clears status lock"): the status
\* file is deleted.
admin_clear ==
    /\ aiStatus = "DISABLED"
    /\ aiStatus' = "ABSENT"
    /\ statusDoc' = NoStatusDoc
    /\ Ended("admin_clear", NoModel, 0)
    /\ UNCHANGED <<driftReport, decayReport, regimeReport, thresholdAlerts, now,
                   response>>

\* The values infer unpacks the result of predict into.
INFER_TARGETS == 3

\* The values predict returns: (confidence, regime, reasons,
\* model_version_used) in backend/ai-layer, (confidence, regime, reasons) in
\* apps/ai-layer.
BACKEND_PREDICT_VALUES == 4

APPS_PREDICT_VALUES == 3

\* /infer: the answer built from what predict returned, or HTTP 500 when the
\* unpacking raises.
InferResponse(prediction, values) ==
    IF values = INFER_TARGETS THEN prediction ELSE "REFUSED"

\* backend/ai-layer main.py infer over its ModelService.predict: the model
\* the active pointer names answers when its file exists, else confidence
\* 0.0 with MODEL_MISSING_OR_NOT_LOADED.
infer_backend ==
    /\ response' = InferResponse(IF pointer # NoModel /\ pointer \in modelFiles
                                 THEN "MODEL" ELSE "FALLBACK",
                                 BACKEND_PREDICT_VALUES)
    /\ Ended("infer", NoModel, 0)
    /\ UNCHANGED <<driftReport, decayReport, regimeReport, thresholdAlerts, aiStatus,
                   statusDoc, now>>

\* apps/ai-layer main.py infer over its ModelService.predict.  loaded:
\* model.joblib was there when the service started.
infer_apps(loaded) ==
    /\ response' = InferResponse(IF loaded THEN "MODEL" ELSE "FALLBACK",
                                 APPS_PREDICT_VALUES)
    /\ Ended("infer", NoModel, 0)
    /\ UNCHANGED <<driftReport, decayReport, regimeReport, thresholdAlerts, aiStatus,
                   statusDoc, now>>

\* The registry left by earlier runs (as in InitConc), no monitor having run.
InitSafety == InitConc

NextSafety ==
    \/ \E wr \in {"NO_DATA", "OK", "WARNING", "CRITICAL"}, others \in SUBSET DRIFT_OTHERS :
            detect_drift(wr, others)
            /\ UNCHANGED <<registry, audit, partial, jobs, integ, replay, analytics>>
    \/ \E drift \in {"NO_DATA", "OK", "WARNING", "CRITICAL"} :
            monitor_threshold_drift(drift)
            /\ UNCHANGED <<registry, audit, partial, jobs, integ, replay, analytics>>
    \/ \E slope \in {"NO_DATA", "STABLE", "DECAY"} :
            detect_decay(slope)
            /\ UNCHANGED <<registry, audit, partial, jobs, integ, replay, analytics>>
    \/ \E data \in BOOLEAN,
          alerts \in SUBSET {VOLATILITY_EXPANSION, UNSTABLE_REGIME, UNKNOWN_REGIME} :
            detect_regime_shift(data, alerts)
            /\ UNCHANGED <<registry, audit, partial, jobs, integ, replay, analytics>>
    \/ detect_auto_disable /\ UNCHANGED <<registry, audit, partial, jobs, integ, replay, analytics>>
    \/ \E confirm \in {"STOP", ""} :
            emergency_stop(confirm)
            /\ UNCHANGED <<registry, audit, partial, jobs, integ, replay, analytics>>
    \/ run_fire_drill /\ UNCHANGED <<registry, audit, partial, jobs, integ, replay, analytics>>
    \/ admin_clear /\ UNCHANGED <<registry, audit, partial, jobs, integ, replay, analytics>>
    \/ tick /\ UNCHANGED <<registry, last, audit, conc, integ, replay, alarms, analytics>>

SpecSafety == InitSafety /\ [][NextSafety]_vars

\* ---------------------------------- the inference services and the status

\* The inference services answer requests while the admin locks and unlocks
\* the AI and the active artifact is promoted and rolled back.
NextInfer ==
    \/ infer_backend /\ UNCHANGED <<registry, audit, partial, jobs, integ, replay, analytics>>
    \/ \E loaded \in BOOLEAN :
            infer_apps(loaded)
            /\ UNCHANGED <<registry, audit, partial, jobs, integ, replay, analytics>>
    \/ \E confirm \in {"STOP", ""} :
            emergency_stop(confirm)
            /\ UNCHANGED <<registry, audit, partial, jobs, integ, replay, analytics>>
    \/ admin_clear /\ UNCHANGED <<registry, audit, partial, jobs, integ, replay, analytics>>
    \/ \E f \in ModelFiles : promote(f) /\ UNCHANGED <<audit, conc, ext>>
    \/ \E t \in ModelFiles : rollback(t) /\ UNCHANGED <<audit, conc, ext>>
    \/ tick /\ UNCHANGED <<registry, last, audit, conc, integ, replay, alarms, analytics>>

SpecInfer == InitSafety /\ [][NextInfer]_vars

\* ---------------------------------------- claims checked under SpecSafety

\* C16: a step that takes the safety status out of DISABLED is a run of the
\* admin's manual override or of the fire drill an operator starts; no run
\* of a monitor or of the safety circuit does it.
C16_NoAutoRecovery ==
    [][(aiStatus = "DISABLED" /\ aiStatus' # "DISABLED") =>
            last'.op \in {"admin_clear", "run_fire_drill"}]_vars

\* The safety circuit has run over reports without a trigger while the
\* status was DISABLED, and the status is still DISABLED.
C16_Witness ==
    /\ aiStatus = "DISABLED"
    /\ last.op = "detect_auto_disable"
    /\ driftReport.exists /\ decayReport.exists /\ regimeReport.exists
    /\ Triggers(driftReport, decayReport, regimeReport) = {}

\* The alerts of CRITICAL severity among those the monitors emitted in their
\* latest runs: the alerts marked CRITICAL, the decay alerts and the regime
\* alerts the circuit holds critical.
CriticalEmitted ==
    {a \in driftReport.alerts \cup thresholdAlerts : HasCritical(a)}
    \cup decayReport.alerts
    \cup {a \in regimeReport.alerts : RegimeTrigger(a)}

\* C17 (as claimed): when a monitor (drift, threshold drift, decay, regime
\* shift) has emitted an alert of CRITICAL severity, the run of the safety
\* circuit that follows leaves the status DISABLED.
C17_CriticalDisables ==
    [][(last'.op = "detect_auto_disable" /\ now' = now /\ CriticalEmitted # {}) =>
            aiStatus' = "DISABLED"]_vars

\* C18 (as claimed): a run of the safety circuit while the status is
\* DISABLED, on the alerts the record was written for or on a record of the
\* admin's emergency stop, leaves status, reason, actor and timestamp as
\* they were written.
C18_RerunKeepsRecord ==
    [][(/\ aiStatus = "DISABLED"
        /\ last'.op = "detect_auto_disable" /\ now' = now
        /\ \/ statusDoc.actor = "ADMIN"
           \/ statusDoc.reason = Triggers(driftReport, decayReport, regimeReport)) =>
            aiStatus' = aiStatus /\ statusDoc' = statusDoc]_vars

\* ----------------------------------------- claims checked under SpecInfer

\* C19 (as claimed): while the safety status is DISABLED, an inference
\* request is refused or answered by the fallback that uses no model.
C19_NoModelOutputWhileDisabled ==
    (aiStatus = "DISABLED" /\ last.op = "infer") => response # "MODEL"

\* ------------------------------------- claims checked under Spec (replay)

\* C21: a run of replay validation while no dataset is tagged ANCHOR ends
\* with exit code 0 and leaves the validation status of every artifact as it
\* was; a run of promote on an artifact whose status is not PASSED (a
\* candidate left unvalidated included) ends with exit code 1 and changes
\* neither the manifest nor the pointer; and as long as no dataset is tagged
\* ANCHOR nothing has been promoted.
C21_SkipKeepsUnvalidated ==
    /\ [][/\ (last'.op = "evaluate_replay" /\ anchors = {}) =>
                (last'.exit = 0 /\ metaStatus' = metaStatus)
          /\ (last'.op = "promote" /\ metaStatus[last'.arg] # "PASSED") =>
                (last'.exit = 1 /\ manifest' = manifest /\ pointer' = pointer)]_vars
    /\ [](anchors = {} => ~everPromoted)

\* Replay validation has run on a candidate and a baseline without any
\* anchor, and the candidate's metadata still has no validation status.
C21_Witness ==
    /\ last.op = "evaluate_replay"
    /\ anchors = {}
    /\ Len(manifest) >= 2
    /\ metaStatus[ReplayCandidate] = "UNKNOWN"

\* ------------------------------- claims checked under SpecReg (composites)

\* C22 (as claimed): no composite entry of the dataset registry lists a
\* dataset tagged ANCHOR among its constituents.
C22_AnchorsNotTrained ==
    \A i \in DOMAIN datasets :
        datasets[i].composite =>
            \A k \in DOMAIN datasets[i].constituents :
                datasets[i].constituents[k] \notin anchors

\* ------------------------------------------------- the promotion gate's runs

\* A gatekeeper run with what it fetched, what it was called with and what
\* evaluate_promotion came to.
gate_run(c, named, i, b) ==
    /\ gatekeeper(c, named, i, b)
    /\ fetched' = i
    /\ gateResult' = GateRuns[i, c, b]
    /\ gateCall' = [candidate |-> c, named |-> named]

NextPromotion ==
    \/ \E c \in Filenames(manifest), named \in 0..MaxModels, i \in DOMAIN GateInputs,
          b \in 0..MaxModels :
            gate_run(c, named, i, b)
            /\ UNCHANGED <<replayVerdict, conc, integ, replay, safety, thresholds, storeSeen, endedEarly, serving>>
    \/ \E f \in ModelFiles : promote(f) /\ UNCHANGED <<audit, conc, ext>>
    \/ \E t \in ModelFiles : rollback(t) /\ UNCHANGED <<audit, conc, ext>>

SpecPromotion == InitConc /\ [][NextPromotion]_vars

\* ------------------------------------------ claims checked under SpecPromotion

\* The rows the gatekeeper run that ended last fetched.
Fetched == IF fetched = 0 THEN <<>> ELSE GateInputs[fetched]

\* The rate x minus the rate y is below p/q, in exact arithmetic.
ExactRateDeltaBelow(x, y, p, q) ==
    (x[1] * y[2] - y[1] * x[2]) * q < p * x[2] * y[2]

\* The checks that fail on the rows of the candidate and of the baseline,
\* each judged by itself in exact arithmetic.
FailingChecks(cand, base) ==
    LET c == calculate_metrics(cand)
        a == calculate_metrics(base)
    IN  (IF Len(cand) < 50 THEN {<<"InsufficientSamples", "">>} ELSE {})
        \cup (IF ExactRateDeltaBelow(WinRate(cand), WinRate(base), 5, 1000)
              THEN {<<"InsufficientImprovement", "">>} ELSE {})
        \cup {<<"RegimeRegression", r>> :
                r \in {x \in DOMAIN c.regime_wr \cap DOMAIN a.regime_wr :
                          ExactRateDeltaBelow(c.regime_wr[x], a.regime_wr[x], -5, 100)}}
        \cup (IF 100 * c.bucket_wr["High"][1] < 60 * c.bucket_wr["High"][2]
              THEN {<<"CalibrationFailure", "">>} ELSE {})

\* C23 (as claimed): every gatekeeper run returns a pair (approved, reasons);
\* unless it denied before the rules for lack of data, the reasons are all
\* the checks that fail, and approved is true exactly when there is none.
C23_AllChecksEveryEvaluation ==
    last.op = "gatekeeper" =>
        /\ ~gateResult.raised
        /\ gateResult.approved <=> (gateResult.reasons = {} /\ gateResult.early = "")
        /\ gateResult.early = "" =>
              gateResult.reasons =
                  FailingChecks(OfModel(Fetched, gateCall.candidate),
                                OfModel(Fetched, gateResult.baseline))

\* C24 (as claimed): a gatekeeper run whose candidate has fewer than 50
\* signals in a store that has signals and a baseline ends in a denial whose
\* reasons include InsufficientSamples.
C24_BelowFiftyInsufficient ==
    (/\ last.op = "gatekeeper"
     /\ gateResult.early = ""
     /\ Len(OfModel(Fetched, gateCall.candidate)) < MIN_SAMPLES) =>
        /\ ~gateResult.raised
        /\ ~gateResult.approved
        /\ <<"InsufficientSamples", "">> \in gateResult.reasons

\* C25 (as claimed): the metrics of an empty set of rows, as the gate computes
\* them for a candidate without signals, have count, win_rate and total_pnl,
\* each 0.
C25_EmptyMetricsZeroed ==
    (last.op = "gatekeeper" /\ Len(OfModel(Fetched, gateCall.candidate)) = 0) =>
        LET m == calculate_metrics(OfModel(Fetched, gateCall.candidate))
        IN  /\ HasKey(m, "count") /\ m.count = 0
            /\ HasKey(m, "win_rate") /\ m.win_rate[1] = 0
            /\ HasKey(m, "total_pnl") /\ m.total_pnl = 0

\* C26 (as claimed): a gatekeeper run that names no baseline and compares a
\* candidate that is not ACTIVE with a model compares it with the ACTIVE entry
\* of the registry.
C26_BaselineIsRegistryActive ==
    (/\ last.op = "gatekeeper"
     /\ gateCall.named = NoModel
     /\ gateCall.candidate \notin ActiveFiles(manifest)
     /\ gateResult.baseline # NoModel) =>
        gateResult.baseline \in ActiveFiles(manifest)

\* ------------------------------------- threshold proposal, replay, approval

\* propose_thresholds.py: without signals it writes nothing; otherwise it
\* writes the proposal, stamped with the minute of the clock (version) and
\* carrying the cutoff its scan of the signals arrives at (min).
propose_thresholds(hasData, version, min) ==
    /\ proposal' = IF hasData THEN Proposal(version, min) ELSE proposal
    /\ runEnd' = IF hasData THEN "DONE" ELSE "NO_DATA"
    /\ Ended("propose_thresholds", NoModel, 0)
    /\ UNCHANGED <<validation, thresholdVersions, signoff>>

\* replay_thresholds.py on the store content ReplayInputs[i]: without a
\* proposal or without signals it returns; a KeyError ends it before
\* replay_validation.json is written.
replay_thresholds(i) ==
    LET end == IF ~proposal.exists THEN "NO_PROPOSAL"
               ELSE ReplayRuns[i, proposal.version, proposal.min].end
    IN  /\ validation' = IF end = "DONE"
                         THEN ReplayRuns[i, proposal.version, proposal.min].doc
                         ELSE validation
        /\ runEnd' = end
        /\ Ended("replay_thresholds", NoModel, IF end = "RAISED" THEN 1 ELSE 0)
        /\ UNCHANGED <<proposal, thresholdVersions, signoff>>

\* The row approve_threshold.py posts to threshold_versions.
ThresholdVersion(version, min, approved_by) ==
    [version |-> version, min |-> min, is_active |-> FALSE, approved_by |-> approved_by]

\* Mutant of approve_threshold: the validation of any proposal will do.
approve_threshold_AnyVersion(approver, confirm, status) ==
    LET end == IF ~proposal.exists \/ ~validation.exists THEN "NOT_FOUND"
               ELSE IF ~validation.passed THEN "DENIED"
               ELSE IF approver = "" THEN "NO_SIGNATURE"
               ELSE IF confirm # "APPROVE" THEN "CANCELLED"
               ELSE IF status = 0 THEN "RAISED"
               ELSE IF status \in {200, 201} THEN "STORED"
               ELSE "DB_ERROR"
    IN  /\ thresholdVersions' =
                IF end = "STORED"
                THEN thresholdVersions
                     \cup {ThresholdVersion(proposal.version, proposal.min, approver)}
                ELSE thresholdVersions
        /\ signoff' = IF end \in {"NOT_FOUND", "DENIED", "NO_SIGNATURE"} THEN NoSignoff
                      ELSE [approver |-> approver, confirm |-> confirm]
        /\ runEnd' = end
        /\ Ended("approve_threshold", NoModel, IF end = "RAISED" THEN 1 ELSE 0)
        /\ UNCHANGED <<proposal, validation>>

\* approve_threshold.py: both documents, equal versions, a passed replay, a
\* signature and the word APPROVE, then the POST; status is the answer of
\* the store (0: the request raised).
approve_threshold(approver, confirm, status) ==
    LET end == IF ~proposal.exists \/ ~validation.exists THEN "NOT_FOUND"
               ELSE IF proposal.version # validation.proposal_ver THEN "MISMATCH"
               ELSE IF ~validation.passed THEN "DENIED"
               ELSE IF approver = "" THEN "NO_SIGNATURE"
               ELSE IF confirm # "APPROVE" THEN "CANCELLED"
               ELSE IF status = 0 THEN "RAISED"
               ELSE IF status \in {200, 201} THEN "STORED"
               ELSE "DB_ERROR"
    IN  /\ thresholdVersions' =
                IF end = "STORED"
                THEN thresholdVersions
                     \cup {ThresholdVersion(proposal.version, proposal.min, approver)}
                ELSE thresholdVersions
        /\ signoff' = IF end \in {"NOT_FOUND", "MISMATCH", "DENIED", "NO_SIGNATURE"}
                      THEN NoSignoff
                      ELSE [approver |-> approver, confirm |-> confirm]
        /\ runEnd' = end
        /\ Ended("approve_threshold", NoModel, IF end = "RAISED" THEN 1 ELSE 0)
        /\ UNCHANGED <<proposal, validation>>

NextThreshold ==
    \/ \E hasData \in BOOLEAN, version \in ProposalVersions, min \in ProposedMins :
            propose_thresholds(hasData, version, min)
            /\ UNCHANGED <<registry, audit, conc, integ, replay, safety, gate, storeSeen, endedEarly, serving>>
    \/ \E i \in DOMAIN ReplayInputs :
            replay_thresholds(i)
            /\ UNCHANGED <<registry, audit, conc, integ, replay, safety, gate, storeSeen, endedEarly, serving>>
    \/ \E approver \in {"", "ops"}, confirm \in {"APPROVE", "yes"}, status \in {0, 201, 500} :
            approve_threshold(approver, confirm, status)
            /\ UNCHANGED <<registry, audit, conc, integ, replay, safety, gate, storeSeen, endedEarly, serving>>

SpecThreshold == InitConc /\ [][NextThreshold]_vars

\* ------------------------------------------ claims checked under SpecThreshold

\* C27 (as claimed): the document a replay run writes has passed false exactly
\* when the simulated win rate is more than one percentage point below the
\* baseline's or the simulated drawdown is more than 10% deeper than the
\* baseline's, and carries the warning exactly when the simulated PnL is
\* positive and more than 20% below the baseline's.
C27_ReplayVerdict ==
    (last.op = "replay_thresholds" /\ runEnd = "DONE") =>
        /\ ~validation.passed <=>
              \/ ExactRateDeltaBelow(validation.simulated.win_rate,
                                     validation.baseline.win_rate, -1, 100)
              \/ 10 * validation.simulated.max_drawdown
                    < 11 * validation.baseline.max_drawdown
        /\ "Warning" \in validation.reasons <=>
              /\ 10 * validation.simulated.total_pnl < 8 * validation.baseline.total_pnl
              /\ validation.simulated.total_pnl > 0

\* C28: a row is added to threshold_versions only by a run that found both
\* documents with equal versions and a passed replay, was given an approver
\* name and the word APPROVE; the row is the proposal's and is inactive, and
\* no stored row is active.
C28_ApproveOnlyValidated ==
    /\ [][thresholdVersions' # thresholdVersions =>
            /\ last'.op = "approve_threshold"
            /\ proposal.exists /\ validation.exists
            /\ validation.proposal_ver = proposal.version
            /\ validation.passed
            /\ signoff'.approver # "" /\ signoff'.confirm = "APPROVE"
            /\ thresholdVersions' \ thresholdVersions =
                  {ThresholdVersion(proposal.version, proposal.min, signoff'.approver)}]_vars
    /\ [](\A r \in thresholdVersions : ~r.is_active)

\* C28 witness: an approval stored the proposal after a passed replay of a
\* store in which the proposed cutoff only costs volume.
C28_Witness ==
    /\ last.op = "approve_threshold"
    /\ runEnd = "STORED"
    /\ "Warning" \in validation.reasons
    /\ ThresholdVersion(proposal.version, proposal.min, "ops") \in thresholdVersions

\* ------------------------------------------------- the signal store's outages

\* The scripts that call fetch_attributed_signals and are run unattended.
FetchingScripts ==
    {"detect_drift", "detect_decay", "detect_regime_shift", "monitor_threshold_drift",
     "gatekeeper", "replay_thresholds"}

\* How requests.get(url, headers=HEADERS), called without a timeout and
\* outside any try, ends: a store that cannot be reached raises; one that
\* accepts the connection and never answers keeps the call waiting for as
\* long as it stays silent, or raises once the connection breaks.
FetchEnds(how) ==
    IF how = "UNREACHABLE" THEN {"RAISED"} ELSE {"RAISED", "HUNG"}

\* A run of script during an outage of the store: it gets as far as the fetch
\* (replay_thresholds.py only with a proposal, monitor_threshold_drift.py only
\* with a validation document) and no further; an exception leaves it by a
\* traceback.
fetch_fails(script, how, end) ==
    /\ script \in FetchingScripts
    /\ how \in {"UNREACHABLE", "TIMEOUT"}
    /\ end \in FetchEnds(how)
    /\ script = "replay_thresholds" => proposal.exists
    /\ script = "monitor_threshold_drift" => validation.exists
    /\ storeSeen' = how
    /\ runEnd' = end
    /\ IF end = "RAISED" THEN Ended(script, NoModel, 1) ELSE UNCHANGED last
    /\ UNCHANGED <<registry, audit, conc, integ, replay, safety, gate, thresholdDocs, endedEarly, serving>>

\* What a monitor run that got an answer from the store saw, and how it
\* ended; noData: it returned for want of signals.
monitor_end(noData) ==
    /\ storeSeen' = (IF noData THEN "EMPTY" ELSE "ROWS")
    /\ runEnd' = (IF noData THEN "NO_DATA" ELSE "DONE")
    /\ UNCHANGED <<registry, audit, partial, jobs, integ, replay, gate, thresholdDocs, endedEarly, serving>>

NextOutage ==
    \/ \E script \in FetchingScripts, how \in {"UNREACHABLE", "TIMEOUT"},
          end \in {"RAISED", "HUNG"} :
            fetch_fails(script, how, end)
    \/ \E wr \in {"NO_DATA", "CRITICAL"} :
            detect_drift(wr, {}) /\ monitor_end(wr = "NO_DATA")
    \/ \E drift \in {"NO_DATA", "CRITICAL"} :
            monitor_threshold_drift(drift) /\ monitor_end(drift = "NO_DATA")
    \/ \E slope \in {"NO_DATA", "STABLE", "DECAY"} :
            detect_decay(slope) /\ monitor_end(slope = "NO_DATA")
    \/ \E data \in BOOLEAN, alerts \in SUBSET {VOLATILITY_EXPANSION} :
            detect_regime_shift(data, alerts) /\ monitor_end(~data)
    \/ \E i \in {i \in DOMAIN GateInputs : i = 1 \/ Len(GateInputs[i]) = 0},
          b \in 0..MaxModels :
            /\ gate_run(2, NoModel, i, b)
            /\ storeSeen' = (IF Len(GateInputs[i]) = 0 THEN "EMPTY" ELSE "ROWS")
            /\ runEnd' = (IF Len(GateInputs[i]) = 0 THEN "NO_DATA" ELSE "DONE")
            /\ UNCHANGED <<replayVerdict, conc, integ, replay, safety, thresholdDocs, endedEarly, serving>>
    \/ /\ propose_thresholds(TRUE, 1, 70)
       /\ storeSeen' = "ROWS"
       /\ UNCHANGED <<registry, audit, conc, integ, replay, safety, gate, endedEarly, serving>>
    \/ \E i \in {i \in DOMAIN ReplayInputs : i = 6 \/ Len(ReplayInputs[i]) = 0} :
            /\ replay_thresholds(i)
            /\ storeSeen' = (IF Len(ReplayInputs[i]) = 0 THEN "EMPTY" ELSE "ROWS")
            /\ UNCHANGED <<registry, audit, conc, integ, replay, safety, gate, endedEarly, serving>>

SpecOutage == InitConc /\ [][NextOutage]_vars

\* ------------------------------------------ claims checked under SpecOutage

\* C29 (as claimed): a run that finds the signal store unreachable, silent or
\* without signals ends, and not by an exception, and leaves the reports, the
\* alerts logged, the validation document and the safety status as they were.
C29_OutageIsInsufficientData ==
    /\ [](storeSeen \in {"UNREACHABLE", "TIMEOUT", "EMPTY"} =>
             runEnd \notin {"RAISED", "HUNG"})
    /\ [][storeSeen' \in {"UNREACHABLE", "TIMEOUT", "EMPTY"} =>
             UNCHANGED <<driftReport, decayReport, regimeReport, thresholdAlerts,
                         validation, aiStatus, statusDoc>>]_vars

\* ---------------------------------------------------- the decay monitor's runs

\* A run of detect_decay.py on the store content DecayInputs[i].
decay_scan(i, slope) ==
    /\ slope \in DecayRuns[i].verdicts
    /\ detect_decay(slope)
    /\ fetched' = i
    /\ UNCHANGED <<registry, audit, partial, jobs, integ, replay, gateResult, gateCall,
                   thresholds, storeSeen, endedEarly, serving>>

NextDecay ==
    \/ \E i \in DOMAIN DecayInputs, slope \in {"NO_DATA", "STABLE", "DECAY"} :
            decay_scan(i, slope)
    \/ \E drift \in {"NO_DATA", "OK", "WARNING", "CRITICAL"} :
            monitor_threshold_drift(drift)
            /\ UNCHANGED <<registry, audit, partial, jobs, integ, replay, analytics>>
    \/ \E data \in BOOLEAN,
          alerts \in SUBSET {VOLATILITY_EXPANSION, UNSTABLE_REGIME, UNKNOWN_REGIME} :
            detect_regime_shift(data, alerts)
            /\ UNCHANGED <<registry, audit, partial, jobs, integ, replay, analytics>>

SpecDecay == InitConc /\ [][NextDecay]_vars

\* ------------------------------------------ claims checked under SpecDecay

\* For every store content of DecayInputs: the days with more than 5 signals,
\* and whether the least-squares slope of their win rates over their index is
\* below -0.005.
DecayExpected ==
    [i \in DOMAIN DecayInputs |->
        LET valid == IF Len(DecayInputs[i]) = 0 THEN <<>>
                     ELSE SelectSeq(DailyStats(DecayInputs[i]), LAMBDA d : d.count > 5)
        IN  [days |-> Len(valid),
             below |-> Len(valid) >= 2
                       /\ 1000 * Slope(valid)[1] < -5 * Slope(valid)[2]]]

\* C30 (as claimed): a run of the decay monitor raises no alert when fewer
\* than 5 days with more than 5 signals remain, and otherwise reports the
\* alert exactly when the least-squares slope of the win rates of those days
\* over their index is below -0.005.
C30_DecayRule ==
    [][last'.op = "detect_decay" =>
          IF DecayExpected[fetched'].days < 5
          THEN DECAY_DETECTED \in decayReport'.alerts => DECAY_DETECTED \in decayReport.alerts
          ELSE DECAY_DETECTED \in decayReport'.alerts <=> DecayExpected[fetched'].below]_vars

\* ------------------------------------------------- the regime monitor's runs

\* A signal as detect_regime_shift.py reads it: the volatility of
\* metadata.technicals in thousandths (0 when the metadata carries none) and
\* the regime label.
Tick(volatility, regime) == [volatility |-> volatility, regime |-> regime]

\* n signals that are alike.
Ticks(n, volatility, regime) == [k \in 1..n |-> Tick(volatility, regime)]

\* n signals of one volatility whose labels alternate between two regimes.
Flicker(n, volatility) ==
    [k \in 1..n |-> Tick(volatility, IF k % 2 = 1 THEN "TRENDING" ELSE "RANGING")]

\* int(len(df) * 0.8)
SplitIdx(df) == (Len(df) * 8) \div 10

\* df.iloc[:split_idx] and df.iloc[split_idx:]
Reference(df) == SubSeq(df, 1, SplitIdx(df))

Recent(df) == SubSeq(df, SplitIdx(df) + 1, Len(df))

\* df['volatility'].sum()
TotalVolatility(df) ==
    LET vols == {df[i].volatility : i \in DOMAIN df}
        sum[S \in SUBSET vols] ==
            IF S = {} THEN 0
            ELSE LET v == CHOOSE x \in S : TRUE
                 IN  v * Len(SelectSeq(df, LAMBDA s : s.volatility = v)) + sum[S \ {v}]
    IN  sum[vols]

\* curr_vol / ref_vol if ref_vol > 0 else 1.0, as the pair of the dividend
\* and the divisor of the exact quotient of the two means.
VolatilityRatio(df) ==
    IF TotalVolatility(Reference(df)) > 0
    THEN <<TotalVolatility(Recent(df)) * Len(Reference(df)),
           TotalVolatility(Reference(df)) * Len(Recent(df))>>
    ELSE <<1, 1>>

\* What ratio > 2.0 may come to.  The means are sums of doubles divided by
\* the counts, and the ratio is their quotient in doubles: away from 2 the
\* comparison is that of the exact quotient; for a quotient equal to 2 the
\* rounding errors of the sums decide (160 volatilities of 0.1 followed by 40
\* of 0.2 give 2.0000000000000004 under numpy's pairwise summation and
\* 2.000000000000006 summed in order, above; 0.25 and 0.5 give 2.0).
ExpansionVerdicts(ratio) ==
    IF ratio[1] > 2 * ratio[2] THEN {TRUE}
    ELSE IF ratio[1] < 2 * ratio[2] THEN {FALSE}
    ELSE {TRUE, FALSE}

\* (recent_regimes != recent_regimes.shift()).sum(): shift() puts NaN before
\* the first label, which differs from every label.
Changes(recent) ==
    1 + Cardinality({k \in 2..Len(recent) : recent[k].regime # recent[k - 1].regime})

\* changes / len(recent_regimes), as the pair of dividend and divisor.
FlickerRate(recent) == <<Changes(recent), Len(recent)>>

\* (recent_regimes == 'UNKNOWN').sum()
UnknownCount(recent) == Len(SelectSeq(recent, LAMBDA s : s.regime = "UNKNOWN"))

\* detect_regime_shift.py, lines 74-100: the alerts, expansion being what
\* ratio > 2.0 came to.  0.3 and 0.5 are compared with quotients of small
\* integers, which the division rounds as the literal is rounded.
RegimeAlerts(df, expansion) ==
    (IF expansion THEN {VOLATILITY_EXPANSION} ELSE {})
    \cup (IF 10 * FlickerRate(Recent(df))[1] > 3 * FlickerRate(Recent(df))[2]
          THEN {UNSTABLE_REGIME} ELSE {})
    \cup (IF 2 * UnknownCount(Recent(df)) > Len(Recent(df))
          THEN {UNKNOWN_REGIME} ELSE {})

\* regime_report.json as detect_regime_shift.py writes it.
RegimeReport(df, expansion) ==
    [exists |-> TRUE,
     alerts |-> RegimeAlerts(df, expansion),
     volatility_ratio |-> VolatilityRatio(df),
     flicker_rate |-> FlickerRate(Recent(df))]

\* detect_regime_shift.py from the fetched rows to the report: the early
\* returns (no data, fewer than 200 signals) and the reports the run may
\* write.
RegimeReports(data) ==
    IF Len(data) < 200 THEN {}
    ELSE {RegimeReport(data, x) : x \in ExpansionVerdicts(VolatilityRatio(data))}

\* What the signal store may hold when the regime monitor runs, oldest
\* signal first: (1) volatility 0.01 then 0.03 in the newest fifth; (2) 0.1
\* then 0.2; (3) 0.02 then 0.008; (4) 205 signals, the labels of the newest
\* 41 changing 12 times; (5) 199 signals with the expansion of (1); (6) no
\* signal; (7) one label and one volatility throughout; (8) the labels of the
\* newest 40 alternating; (9) no volatility in the older metadata, 0.03 in
\* the newest fifth; (10) the newest 40 labelled UNKNOWN; (11) the labels of
\* the newest 40 changing 11 times.
RegimeInputs ==
    <<Ticks(160, 10, "TRENDING") \o Ticks(40, 30, "TRENDING"),
      Ticks(160, 100, "TRENDING") \o Ticks(40, 200, "TRENDING"),
      Ticks(160, 20, "TRENDING") \o Ticks(40, 8, "TRENDING"),
      Ticks(164, 10, "TRENDING") \o Flicker(13, 10) \o Ticks(28, 10, "TRENDING"),
      Ticks(159, 10, "TRENDING") \o Ticks(40, 30, "TRENDING"),
      <<>>,
      Ticks(200, 10, "RANGING"),
      Ticks(160, 10, "TRENDING") \o Flicker(40, 10),
      Ticks(160, 0, "TRENDING") \o Ticks(40, 30, "TRENDING"),
      Ticks(160, 10, "TRENDING") \o Ticks(40, 10, "UNKNOWN"),
      Ticks(160, 10, "TRENDING") \o Flicker(12, 10) \o Ticks(28, 10, "RANGING")>>

\* detect_regime_shift.py on every store content of RegimeInputs, computed
\* once.
RegimeRuns == [i \in DOMAIN RegimeInputs |-> RegimeReports(RegimeInputs[i])]

\* The history of the monitors' early returns after a run of a monitor.
monitor_log(monitor, early) ==
    /\ endedEarly' = (IF early THEN endedEarly \cup {monitor} ELSE endedEarly \ {monitor})
    /\ UNCHANGED <<registry, audit, partial, jobs, integ, replay, gateResult, gateCall,
                   thresholds, storeSeen, serving>>

\* A run of detect_regime_shift.py on the store content RegimeInputs[i]:
\* without data or with fewer than 200 signals it returns and the report
\* file stays as it is.
regime_scan(i, report) ==
    /\ IF RegimeRuns[i] = {}
       THEN report = regimeReport
       ELSE report \in RegimeRuns[i]
    /\ regimeReport' = report
    /\ fetched' = i
    /\ Ended("detect_regime_shift", NoModel, 0)
    /\ monitor_log("Regime", RegimeRuns[i] = {})
    /\ UNCHANGED <<driftReport, decayReport, thresholdAlerts, aiStatus, statusDoc,
                   now, response>>

\* The monitors, the safety circuit and the admin's override, run one after
\* the other.
NextRegime ==
    \/ \E i \in DOMAIN RegimeInputs :
        \E report \in RegimeRuns[i] \cup {regimeReport} : regime_scan(i, report)
    \/ \E wr \in {"NO_DATA", "OK", "CRITICAL"} :
            /\ detect_drift(wr, {})
            /\ monitor_log("Drift", wr = "NO_DATA")
            /\ UNCHANGED fetched
    \/ \E slope \in {"NO_DATA", "STABLE", "DECAY"} :
            /\ detect_decay(slope)
            /\ monitor_log("Decay", slope = "NO_DATA")
            /\ UNCHANGED fetched
    \/ detect_auto_disable /\ UNCHANGED <<registry, audit, partial, jobs, integ, replay, analytics>>
    \/ admin_clear /\ UNCHANGED <<registry, audit, partial, jobs, integ, replay, analytics>>

SpecRegime == InitConc /\ [][NextRegime]_vars

\* ------------------------------------------ claims checked under SpecRegime

\* For every store content of RegimeInputs: the number of signals, whether
\* the mean volatility of the reference slice is positive, whether the mean
\* of the recent slice divided by it exceeds 2, and the pairs of consecutive
\* signals of the recent slice with those whose labels differ.
RegimeExpected ==
    [i \in DOMAIN RegimeInputs |->
        LET df == RegimeInputs[i]
            recent == Recent(df)
        IN  [signals |-> Len(df),
             positive |-> TotalVolatility(Reference(df)) > 0,
             above |-> TotalVolatility(recent) * Len(Reference(df))
                            > 2 * TotalVolatility(Reference(df)) * Len(recent),
             pairs |-> Len(recent) - 1,
             differing |-> Cardinality({k \in 2..Len(recent) :
                                            recent[k].regime # recent[k - 1].regime})]]

\* C31 (as claimed): a run of the regime monitor on at least 200 signals
\* reports the volatility-expansion alert exactly when the mean volatility of
\* the newest fifth divided by the mean volatility of the signals before it
\* exceeds 2.0 (so never for a ratio below 0.5).
C31_VolatilityExpansionRule ==
    [][(/\ last'.op = "detect_regime_shift"
        /\ RegimeExpected[fetched'].signals >= 200
        /\ RegimeExpected[fetched'].positive) =>
            (VOLATILITY_EXPANSION \in regimeReport'.alerts
                <=> RegimeExpected[fetched'].above)]_vars

\* C35 (as claimed): the flicker rate a run of the regime monitor reports
\* is the fraction of the pairs of consecutive signals of the recent slice
\* whose labels differ (0 for one constant label), and the instability alert
\* is reported exactly when that fraction exceeds 0.30.
C35_FlickerRule ==
    [][(/\ last'.op = "detect_regime_shift"
        /\ RegimeExpected[fetched'].signals >= 200) =>
            /\ regimeReport'.flicker_rate[1] * RegimeExpected[fetched'].pairs
                    = RegimeExpected[fetched'].differing * regimeReport'.flicker_rate[2]
            /\ UNSTABLE_REGIME \in regimeReport'.alerts
                    <=> 10 * RegimeExpected[fetched'].differing
                            > 3 * RegimeExpected[fetched'].pairs]_vars

\* The triggers the reports hold that the latest run of their monitor wrote.
FreshTriggers ==
    {t \in Triggers(driftReport, decayReport, regimeReport) : t[1] \notin endedEarly}

\* C36 (as claimed): a run of the safety circuit while no monitor's latest
\* run raised a triggering alert (it raised none, or returned early for lack
\* of data) leaves the safety status as it is, whatever alerts earlier runs
\* left in the report files.
C36_OnlyLatestRuns ==
    [][(last'.op = "detect_auto_disable" /\ FreshTriggers = {}) =>
            aiStatus' = aiStatus /\ statusDoc' = statusDoc]_vars

\* ------------------------------- claims checked under SpecSafety (quiet runs)

\* The alerts that trip nothing: the drift WARNING, the confidence shift,
\* the change of the dominant regime and the regime flicker (a volatility
\* compression is printed, never put among the alerts of a report).
NonTriggering == {DRIFT_WARNING, UNSTABLE_REGIME} \cup DRIFT_OTHERS

\* The alerts the three report files hold.
ReportedAlerts == driftReport.alerts \cup decayReport.alerts \cup regimeReport.alerts

\* C33: a run of the safety circuit over reports that hold no alert, or only
\* alerts that trip nothing, leaves the safety status and its record as they
\* are.
C33_QuietRunWritesNothing ==
    [][(last'.op = "detect_auto_disable" /\ ReportedAlerts \subseteq NonTriggering) =>
            aiStatus' = aiStatus /\ statusDoc' = statusDoc]_vars

\* The safety circuit has run over reports that hold every alert that trips
\* nothing, and no status was written.
C33_Witness ==
    /\ last.op = "detect_auto_disable"
    /\ driftReport.exists /\ decayReport.exists /\ regimeReport.exists
    /\ ReportedAlerts = NonTriggering
    /\ aiStatus = "ABSENT"

\* ------------------------- claims checked under SpecPromotion (the buckets)

\* For every store content of GateInputs: the confidences in [0, 1] of its
\* signals that calculate_metrics does not count in the bucket of [0, 0.5),
\* [0.5, 0.75), [0.75, 1.0] they lie in.
Misplaced ==
    [i \in DOMAIN GateInputs |->
        {c \in {GateInputs[i][k].confidence : k \in DOMAIN GateInputs[i]} :
            /\ c \in 0..100
            /\ Bucket(c) # (IF c < 50 THEN "Low" ELSE IF c < 75 THEN "Mid" ELSE "High")}]

\* C34 (as claimed): the metrics of a gatekeeper run count every fetched
\* signal with a confidence in [0, 1] in the bucket of [0, 0.5), [0.5, 0.75),
\* [0.75, 1.0] its confidence lies in (0 in Low, 0.5 in Mid, 0.75 in High).
C34_BucketsPartition == fetched # 0 => Misplaced[fetched] = {}

\* ------------------------------- the inference service and the model config

\* Mutant of ActiveModelFilename: the service keeps to a model it has
\* loaded.
ActiveModelFilename_Loaded ==
    IF modelCache # {} THEN CHOOSE f \in modelCache : TRUE ELSE pointer

\* model_service.py _get_active_model_filename: the 'active_model' of
\* models/active_model.json, read at every call (NoModel: None).
ActiveModelFilename == pointer

\* model_service.py _load_model: the model cached for the filename, or else
\* the one loaded from its file when that exists (NoModel: None).
LoadModel(filename) ==
    IF filename \in modelCache \/ filename \in modelFiles THEN filename ELSE NoModel

\* The cache after _load_model.
CacheAfter(filename) ==
    IF filename # NoModel /\ filename \in modelFiles
    THEN modelCache \cup {filename} ELSE modelCache

\* The inference service starts: ModelService() loads the active model into
\* an empty cache.
start_service ==
    /\ modelCache' = (IF ActiveModelFilename # NoModel /\ ActiveModelFilename \in modelFiles
                      THEN {ActiveModelFilename} ELSE {})
    /\ Ended("start_service", NoModel, 0)
    /\ UNCHANGED <<registry, audit, conc, integ, replay, safety, gate, thresholds,
                   storeSeen, endedEarly, modelConfig>>

\* model_service.py predict.  model_id: the model asked for (NoModel: none
\* given).  The answer: the model that computed the confidence (NoModel:
\* MODEL_MISSING_OR_NOT_LOADED) and model_version_used (NoModel: "NONE").
predict(model_id) ==
    LET target_model_filename ==
            IF model_id # NoModel THEN model_id ELSE ActiveModelFilename
    IN  /\ response' = [model |-> IF target_model_filename # NoModel
                                  THEN LoadModel(target_model_filename) ELSE NoModel,
                        model_version_used |-> target_model_filename]
        /\ modelCache' = CacheAfter(target_model_filename)
        /\ Ended("predict", model_id, 0)
        /\ UNCHANGED <<driftReport, decayReport, regimeReport, thresholdAlerts, aiStatus,
                       statusDoc, now>>
        /\ UNCHANGED <<registry, audit, partial, jobs, integ, replay, gate, thresholds,
                       storeSeen, endedEarly, modelConfig>>

\* revert_model.py revert_model: without a configuration, without a previous
\* model or without the confirmation it returns; else it swaps active_model
\* and previous_model of the configuration.  It reads and writes no other
\* file.
revert_model(confirm) ==
    /\ confirm \in {"REVERT", ""}
    /\ IF modelConfig.exists /\ modelConfig.previous_model # NoModel /\ confirm = "REVERT"
       THEN modelConfig' = [exists |-> TRUE,
                            active_model |-> modelConfig.previous_model,
                            previous_model |-> modelConfig.active_model]
       ELSE UNCHANGED modelConfig
    /\ Ended("revert_model", NoModel, 0)
    /\ UNCHANGED <<registry, audit, conc, integ, replay, safety, gate, thresholds,
                   storeSeen, endedEarly, modelCache>>

\* The registry of InitDeployed with the model configuration of its
\* deployment: none, or one that names the active artifact, with or without
\* a previous one.
InitServing ==
    /\ InitDeployed
    /\ modelConfig \in
            {NoModelConfig} \cup
            {[exists |-> TRUE, active_model |-> 1, previous_model |-> p] : p \in {NoModel, 2}}

NextServing ==
    \/ \E f \in ModelFiles : promote(f) /\ UNCHANGED <<audit, conc, ext>>
    \/ \E t \in ModelFiles : rollback(t) /\ UNCHANGED <<audit, conc, ext>>
    \/ \E confirm \in {"REVERT", ""} : revert_model(confirm)
    \/ \E model_id \in ModelFiles \cup {NoModel} : predict(model_id)
    \/ start_service

SpecServing == InitServing /\ [][NextServing]_vars

\* ------------------------------------------ claims checked under SpecServing

C37_ActiveRecordsAgree ==
    /\ ActiveFiles(manifest) = {pointer}
    /\ modelConfig.exists => modelConfig.active_model = pointer

\* --------------------- claims checked under SpecThreshold (versions, endings)

\* C38 (as claimed): a run of propose_thresholds.py that replaces the
\* proposal by a different one gives it a different version, and an approval
\* is stored only on a validation document computed from the proposal it
\* stores: of its version and of its cutoff.
C38_VersionNamesProposal ==
    [][/\ (last'.op = "propose_thresholds" /\ proposal.exists /\ proposal' # proposal) =>
                proposal'.version # proposal.version
       /\ (last'.op = "approve_threshold" /\ runEnd' = "STORED") =>
                /\ validation.proposal_ver = proposal.version
                /\ validation.simulated.threshold = proposal.min]_vars

\* C39 (as claimed): a run of replay_thresholds.py that found a proposal and
\* signals in the store ends by writing the validation document of that
\* proposal, also when no signal reaches the proposed or the baseline
\* cutoff.
C39_ReplayAlwaysWrites ==
    [][(last'.op = "replay_thresholds" /\ proposal.exists /\ runEnd' # "NO_DATA") =>
            /\ runEnd' = "DONE"
            /\ validation'.exists
            /\ validation'.proposal_ver = proposal.version
            /\ validation'.simulated.threshold = proposal.min]_vars

====
